---- MODULE Spec2Model ----
(***************************************************************************)
(* terminal-brief: the file-backed time-to-live cache (utils/cache), the   *)
(* module registry and orchestrator (modules/base), the timer map          *)
(* (utils/performance) and the entry point (index.ts).                     *)
(*                                                                         *)
(* Strings are modelled as sequences of tokens; a JavaScript value is a    *)
(* record [kind, n]; a file's text is a sequence of tokens.                *)
(***************************************************************************)
EXTENDS Integers, Sequences, FiniteSets, TLC

VARIABLES
    now,        \* Date.now(), in milliseconds
    cacheDir,   \* does CACHE_DIR exist on disk
    files,      \* cache name -> NoFile or [content, mtime]
    pending,    \* the apiRequest that awaits its requestFn(), or NoCall
    last,       \* the outcome of the latest cache operation (NoOp during a call)
    runDirect,  \* require.main === module: the entry file is the program run
    registry,   \* moduleRegistry.modules: module name -> module
    context,    \* the registry that a caller passes as `this`, if any
    config,     \* the configuration that loadConfig() returns
    timers,     \* the names in the timers map of utils/performance
    pass,       \* the calls of init(): position, locals, calls made
    tokens,     \* are GITHUB_PERSONAL_TOKEN and LINEAR_API_KEY in the environment
    defaults,   \* the object defaultConfig of types/config, shared by its importers
    configDir,  \* does CONFIG_DIR exist on disk
    configFile, \* config.json
    menu,       \* the config command: position, loaded configuration, exit code
    lastConfig, \* the latest loadConfig or saveConfig and its outcome
    source,     \* a data-source module: its fields, its display in progress
    measure     \* the calls of measureTime / measureTimeSync, the latest timer call

cacheVars == <<now, cacheDir, files, pending, last>>

runVars == <<runDirect, registry, context, config, timers, pass>>

cfgVars == <<tokens, defaults, configDir, configFile, menu, lastConfig>>

srcVars == <<source, measure>>

vars == <<now, cacheDir, files, pending, last, runDirect, registry, context, config,
          timers, pass, tokens, defaults, configDir, configFile, menu, lastConfig,
          source, measure>>

----------------------------------------------------------------------------
(* Bounds of the model *)

MaxTicks == 1

(* the longest list of enabled module names *)
MaxEnabled == 3

(* the longest list of enabled module names for which two overlapping calls  *)
(* of init() are explored                                                    *)
MaxEnabledOverlap == 1

(* the same two lengths in the runs whose calls all settle *)
MaxSettling == 2

MaxSettlingOverlap == 0

(* the calls of measureTime and measureTimeSync that a behaviour makes *)
MaxMeasures == 2

(* the longest list of config.linear.teamNames *)
MaxTeams == 2

(* the clock advances in steps of a second *)
TickMs == 1000

----------------------------------------------------------------------------
(* JavaScript values and JSON *)

Undefined == [kind |-> "undefined", n |-> 0]
Null      == [kind |-> "null", n |-> 0]
NaN       == [kind |-> "NaN", n |-> 0]
Num(k)    == [kind |-> "number", n |-> k]
Obj(k)    == [kind |-> "object", n |-> k]      \* the object { value: k }

(* the values a caller or a producer hands to the cache *)
Values == {Undefined, NaN, Num(0), Obj(123)}

(* JavaScript truthiness, as `if (cachedData)` evaluates it *)
Truthy(v) == v.kind = "object" \/ (v.kind \in {"number", "string"} /\ v.n # 0)

(* JSON.stringify returned undefined: there is no text *)
NoText == <<"<undefined>">>

(* a bug: the value is written with String(data) in place of JSON.stringify *)
JSONStringifyAsString(v) ==
    CASE v.kind = "undefined" -> <<"undefined">>
      [] v.kind = "null"      -> <<"null">>
      [] v.kind = "NaN"       -> <<"NaN">>
      [] v.kind = "number"    -> <<ToString(v.n)>>
      [] v.kind = "object"    -> <<"[object Object]">>

(* JSON.stringify(data, null, 2) *)
JSONStringify(v) ==
    CASE v.kind = "undefined" -> NoText
      [] v.kind = "null"      -> <<"null">>
      [] v.kind = "NaN"       -> <<"null">>
      [] v.kind = "number"    -> <<ToString(v.n)>>
      [] v.kind = "object"    -> <<"{", "value", ":", ToString(v.n), "}">>

(* the numbers that occur in the values *)
Numbers == {v.n : v \in {w \in Values : w.kind \in {"number", "object"}}}

(* the JSON numeral tok denotes a number *)
IsNumeral(tok) == \E k \in Numbers : ToString(k) = tok

ParseNumeral(tok) == CHOOSE k \in Numbers : ToString(k) = tok

(* text is `{ "value": <numeral> }` *)
IsObjectText(text) ==
    /\ Len(text) = 5
    /\ text[1] = "{" /\ text[2] = "value" /\ text[3] = ":" /\ text[5] = "}"
    /\ IsNumeral(text[4])

(* does JSON.parse(text) throw a SyntaxError *)
ParseThrows(text) ==
    ~ \/ text = <<"null">>
      \/ Len(text) = 1 /\ IsNumeral(text[1])
      \/ IsObjectText(text)

(* JSON.parse(text), for a text it accepts *)
JSONParse(text) ==
    IF text = <<"null">> THEN Null
    ELSE IF Len(text) = 1 THEN Num(ParseNumeral(text[1]))
    ELSE Obj(ParseNumeral(text[4]))

----------------------------------------------------------------------------
(* The cache storage: one file per cache name under CACHE_DIR *)

MsPerSecond == 1000

(* A cache name is the sequence of its "/"-separated segments: path.join     *)
(* (CACHE_DIR, `${cacheName}.json`) puts a name of several segments into a   *)
(* subdirectory of CACHE_DIR.                                                *)
CacheNames == {<<"api">>, <<"test">>, <<"dev", "ops">>, <<".", "test">>}

(* path.join(CACHE_DIR, `${cacheName}.json`) below CACHE_DIR: path.join      *)
(* normalises the path and drops the "." segments                            *)
CacheFile(name) == LET Named(segment) == segment # "." IN SelectSeq(name, Named)

(* the files that the cache names name *)
CacheFiles == {CacheFile(name) : name \in CacheNames}

MaxAges == {0, 1, 2}

NoFile == [exists |-> FALSE, content |-> <<>>, mtime |-> 0]

File(text, t) == [exists |-> TRUE, content |-> text, mtime |-> t]

(* the fs call that fails during an operation *)
ReadFaults  == {"none", "stat", "readFile"}
WriteFaults == {"none", "mkdir", "writeFile", "truncate"}

(* how a piece of code ends: it returns res, or it throws *)
Return(v) == [threw |-> FALSE, res |-> v]
Throw     == [threw |-> TRUE, res |-> Undefined]

(* path.dirname of the cache file exists: only CACHE_DIR itself is ever made *)
ParentExists(dir, name) == dir /\ Len(CacheFile(name)) = 1

(* fs.mkdir(CACHE_DIR, { recursive: true }) *)
mkdir(dir, fault) == IF fault = "mkdir" THEN [threw |-> TRUE, dir |-> dir]
                     ELSE [threw |-> FALSE, dir |-> TRUE]

(* ensureCacheDir(): the failure of mkdir is caught and logged *)
ensureCacheDir(dir, fault) == [threw |-> FALSE, dir |-> mkdir(dir, fault).dir]

(* a bug: the boundary is taken as fresh *)
IsFreshInclusive(fileAge, maxAge) == fileAge <= maxAge * MsPerSecond

(* fileAge < maxAge * 1000 *)
IsFresh(fileAge, maxAge) == fileAge < maxAge * MsPerSecond

(* the try block of getCache *)
TryGetCache(fs, t, name, maxAge, fault) ==
    IF ~fs[CacheFile(name)].exists \/ fault = "stat" THEN Throw             \* fs.stat
    ELSE IF ~IsFresh(t - fs[CacheFile(name)].mtime, maxAge) THEN Return(Null)
    ELSE IF fault = "readFile" THEN Throw                        \* fs.readFile
    ELSE IF ParseThrows(fs[CacheFile(name)].content) THEN Throw             \* JSON.parse
    ELSE Return(JSONParse(fs[CacheFile(name)].content))

(* getCache(cacheName, maxAge): catch {} and return null *)
getCache(fs, t, name, maxAge, fault) ==
    LET body == TryGetCache(fs, t, name, maxAge, fault)
    IN  IF body.threw THEN Return(Null) ELSE body

(* what an interrupted write leaves of the text *)
Truncated(text) == SubSeq(text, 1, Len(text) - 1)

(* a bug: a write refreshes the write time of every file of the directory    *)
writeFileTouchingAll(fs, dir, t, name, text, fault) ==
    IF text = NoText \/ ~ParentExists(dir, name) \/ fault = "writeFile"
    THEN [threw |-> TRUE, files |-> fs]
    ELSE [threw |-> fault = "truncate",
          files |-> [f \in DOMAIN fs |->
                       IF f = CacheFile(name)
                         THEN File(IF fault = "truncate" THEN Truncated(text) ELSE text, t)
                       ELSE IF fs[f].exists THEN File(fs[f].content, t)
                       ELSE fs[f]]]

(* fs.writeFile(cacheFile, text, 'utf8') *)
writeFile(fs, dir, t, name, text, fault) ==
    IF text = NoText \/ ~ParentExists(dir, name) \/ fault = "writeFile"
    THEN [threw |-> TRUE, files |-> fs]
    ELSE IF fault = "truncate"
    THEN [threw |-> TRUE, files |-> [fs EXCEPT ![CacheFile(name)] = File(Truncated(text), t)]]
    ELSE [threw |-> FALSE, files |-> [fs EXCEPT ![CacheFile(name)] = File(text, t)]]

(* a bug: saveCache without its try/catch *)
saveCacheUncaught(dir, fs, t, name, data, fault) ==
    LET d == mkdir(dir, fault)
        w == writeFile(fs, d.dir, t, name, JSONStringify(data), fault)
    IN  [threw |-> d.threw \/ w.threw, dir |-> d.dir, files |-> w.files]

(* saveCache(cacheName, data): ensureCacheDir, writeFile; a failure is caught *)
(* and logged                                                                 *)
saveCache(dir, fs, t, name, data, fault) ==
    LET d == ensureCacheDir(dir, fault)
        w == writeFile(fs, d.dir, t, name, JSONStringify(data), fault)
    IN  [threw |-> FALSE, dir |-> d.dir, files |-> w.files]

(* `if (cachedData)`: does apiRequest take the cached value *)
CacheHit(cachedData) == Truthy(cachedData)

(* what requestFn() does: it rejects, or resolves with a value *)
Rejects == [kind |-> "rejects", n |-> 0]
ProducerOutcomes == Values \cup {Rejects}

(* a bug: a failed request is cached as null before the error is thrown *)
apiSettleCachesFailure(dir, fs, t, name, outcome, fault) ==
    LET st == saveCache(dir, fs, t, name, IF outcome = Rejects THEN Null ELSE outcome,
                        fault)
    IN  [threw |-> outcome = Rejects, res |-> outcome, dir |-> st.dir,
         files |-> st.files]

(* apiRequest after `await requestFn()`: the response is saved and returned, *)
(* the error is logged and thrown again                                      *)
apiSettle(dir, fs, t, name, outcome, fault) ==
    IF outcome = Rejects
    THEN [threw |-> TRUE, res |-> Undefined, dir |-> dir, files |-> fs]
    ELSE LET st == saveCache(dir, fs, t, name, outcome, fault)
         IN  [threw |-> st.threw, res |-> outcome, dir |-> st.dir, files |-> st.files]

----------------------------------------------------------------------------
(* The module registry (modules/base) *)

(* the built-in modules, in the order of their registration *)
BuiltInModules == <<"github", "weather", "linearStalled", "system">>

(* modules that a program importing moduleRegistry registers itself *)
ExtraModules == <<"welcome">>

(* the names a configuration lists; "greeting" has no registered module *)
ConfigNames == {"github", "system", "greeting", "welcome"}

Range(s) == {s[i] : i \in DOMAIN s}

AllNames == Range(BuiltInModules) \cup Range(ExtraModules) \cup ConfigNames

(* a module object, and what Map.get gives for a missing key *)
Module(name) == [name |-> name]
NoModule     == [name |-> "<undefined>"]

EmptyRegistry == [n \in AllNames |-> NoModule]

(* register(module): this.modules.set(module.name, module) *)
register(reg, module) == [reg EXCEPT ![module.name] = module]

RECURSIVE registerAll(_, _)
registerAll(reg, names) ==
    IF names = <<>> THEN reg
    ELSE registerAll(register(reg, Module(Head(names))), Tail(names))

(* the registry after the registrations at the load of modules/base *)
BuiltInRegistry == registerAll(EmptyRegistry, BuiltInModules)

(* a registry that a caller constructs, with a module of its own; a call     *)
(* without a `this` has the empty registry here                              *)
CallerRegistry == register(EmptyRegistry, Module("greeting"))

(* defaultConfig.enabledModules *)
DefaultEnabledModules == <<"system", "greeting", "weather", "github", "linearStalled">>

(* the lists of at most max names *)
EnabledLists(max) == UNION {[1..n -> ConfigNames] : n \in 0..max}

(* a bug: the registered modules are filtered by the configuration, which    *)
(* gives the order of registration and drops repeats                         *)
getEnabledModulesOfRegistry(reg, cfg) ==
    LET all == [i \in 1..Len(BuiltInModules \o ExtraModules) |->
                   reg[(BuiltInModules \o ExtraModules)[i]]]
        Enabled(m) == m # NoModule /\ m.name \in Range(cfg.enabledModules)
    IN  SelectSeq(all, Enabled)

(* getEnabledModules(config): map each name to Map.get(name), filter out     *)
(* undefined                                                                 *)
getEnabledModules(reg, cfg) ==
    LET mapped == [i \in 1..Len(cfg.enabledModules) |-> reg[cfg.enabledModules[i]]]
        Defined(m) == m # NoModule
    IN  SelectSeq(mapped, Defined)

----------------------------------------------------------------------------
(* The timers (utils/performance) *)

(* A timer name is the pair of its pieces: `setup_${name}`, `display_${name}` *)
TimerName(prefix, name) == <<prefix, name>>

(* the literal 'display_welcome' *)
DisplayWelcomeTimer == <<"display_", "welcome">>

(* startTimer(name): timers.set(name, performance.now()) *)
startTimer(tm, name) == tm \cup {name}

(* endTimer(name): throws when the name is not in the map, else deletes it *)
endTimer(tm, name) ==
    IF name \in tm THEN [threw |-> FALSE, timers |-> tm \ {name}]
    ELSE [threw |-> TRUE, timers |-> tm]

----------------------------------------------------------------------------
(* setupModules, displayWelcome and init: each operator runs the code from   *)
(* one await to the next and gives the pass and the timers it leaves.        *)

(* the text a module's display resolves with *)
Fragment(name) == IF name = "system" THEN <<"System", "\n", "Uptime">>
                  ELSE <<name>>

SetupOutcomes   == {"resolved", "rejected"}
DisplayOutcomes == {"text", "empty", "rejected"}

NoResult == [kind |-> "none", text |-> <<>>]

(* an init() that has not been called *)
IdlePass == [pc |-> "idle", enabledModules |-> <<>>, idx |-> 0, output |-> <<>>,
             calls |-> <<>>, errors |-> {}, setup |-> "none", result |-> NoResult]

(* Array.prototype.join *)
RECURSIVE join(_, _)
join(arr, sep) ==
    IF arr = <<>> THEN <<>>
    ELSE IF Len(arr) = 1 THEN arr[1]
    ELSE arr[1] \o <<sep>> \o join(Tail(arr), sep)

(* module.setup(config) or module.display(config) is called *)
Called(st, phase, name) ==
    [st EXCEPT !.calls = Append(@, [phase |-> phase, name |-> name,
                                    outcome |-> "pending"])]

(* the call that was awaited has settled *)
Settled(st, outcome) == [st EXCEPT !.calls[Len(st.calls)].outcome = outcome]

(* logger.error(`Failed to ${phase} module ${name}: ...`) *)
Logged(st, phase, name) == [st EXCEPT !.errors = @ \cup {<<phase, name>>}]

(* displayWelcome behind its loop; init prints the message, or catches the   *)
(* error of endTimer('display_welcome')                                      *)
FinishDisplay(st, tm) ==
    LET out == Append(st.output, <<>>)
        e   == endTimer(tm, DisplayWelcomeTimer)
    IN  IF e.threw
        THEN [st |-> [st EXCEPT !.pc = "failed", !.output = out,
                                !.result = [kind |-> "rejected", text |-> <<>>]],
              timers |-> e.timers]
        ELSE [st |-> [st EXCEPT !.pc = "done", !.output = out,
                                !.result = [kind |-> "resolved",
                                            text |-> join(out, "\n")]],
              timers |-> e.timers]

(* the loop of displayWelcome from module i up to `await module.display` *)
DisplayFrom(st, tm, i) ==
    IF i <= Len(st.enabledModules)
    THEN LET name == st.enabledModules[i].name
         IN  [st |-> Called([st EXCEPT !.pc = "display", !.idx = i], "display", name),
              timers |-> startTimer(tm, TimerName("display_", name))]
    ELSE FinishDisplay(st, tm)

(* a bug: displayWelcome leaves out the modules whose setup was logged as    *)
(* failed                                                                    *)
displayWelcomeOfSetUp(st, tm, reg, cfg) ==
    LET SetUp(m) == <<"setup", m.name>> \notin st.errors
    IN  DisplayFrom([st EXCEPT !.enabledModules =
                                   SelectSeq(getEnabledModules(reg, cfg), SetUp),
                               !.output = << <<>> >>],
                    startTimer(tm, DisplayWelcomeTimer), 1)

(* displayWelcome(config) *)
displayWelcome(st, tm, reg, cfg) ==
    DisplayFrom([st EXCEPT !.enabledModules = getEnabledModules(reg, cfg),
                           !.output = << <<>> >>],
                startTimer(tm, DisplayWelcomeTimer), 1)

(* displayWelcome behind `await module.display(config)` *)
AfterDisplay(st, tm, outcome) ==
    LET name == st.enabledModules[st.idx].name
        e    == endTimer(tm, TimerName("display_", name))
        moduleOutput == IF outcome = "text" THEN Fragment(name) ELSE <<>>
    IN  IF outcome = "rejected" \/ e.threw
        THEN DisplayFrom(Logged(Settled(st, outcome), "display", name), tm, st.idx + 1)
        ELSE DisplayFrom([Settled(st, outcome) EXCEPT !.output =
                             IF moduleOutput # <<>> THEN Append(@, moduleOutput)
                             ELSE @],
                         e.timers, st.idx + 1)

(* a bug: with performance.parallelExecution the setups of all modules are  *)
(* called at once                                                            *)
SetupFromParallel(st, tm, reg, cfg, i) ==
    IF i <= Len(st.enabledModules)
    THEN LET upto == IF cfg.performance.parallelExecution
                       THEN Len(st.enabledModules) ELSE i
             news == [k \in 1..(upto - i + 1) |->
                        [phase |-> "setup", name |-> st.enabledModules[i + k - 1].name,
                         outcome |-> "pending"]]
         IN  [st |-> [st EXCEPT !.pc = "setup", !.idx = upto, !.calls = @ \o news],
              timers |-> tm \cup {TimerName("setup_", st.enabledModules[k].name) :
                                    k \in i..upto}]
    ELSE displayWelcome([st EXCEPT !.setup = "resolved"], tm, reg, cfg)

(* the loop of setupModules from module i up to `await module.setup`; behind *)
(* the loop setupModules resolves and init calls displayWelcome              *)
SetupFrom(st, tm, reg, cfg, i) ==
    IF i <= Len(st.enabledModules)
    THEN LET name == st.enabledModules[i].name
         IN  [st |-> Called([st EXCEPT !.pc = "setup", !.idx = i], "setup", name),
              timers |-> startTimer(tm, TimerName("setup_", name))]
    ELSE displayWelcome([st EXCEPT !.setup = "resolved"], tm, reg, cfg)

(* setupModules(config) *)
setupModules(st, tm, reg, cfg) ==
    SetupFrom([st EXCEPT !.enabledModules = getEnabledModules(reg, cfg),
                         !.setup = "running"],
              tm, reg, cfg, 1)

(* a bug: setupModules without its try/catch *)
AfterSetupUncaught(st, tm, reg, cfg, outcome) ==
    LET name == st.enabledModules[st.idx].name
        e    == endTimer(tm, TimerName("setup_", name))
    IN  IF outcome = "rejected" \/ e.threw
        THEN [st |-> [Settled(st, outcome) EXCEPT !.pc = "failed",
                                                  !.setup = "rejected"],
              timers |-> tm]
        ELSE SetupFrom(Settled(st, outcome), e.timers, reg, cfg, st.idx + 1)

(* a bug: a setup that failed is called again *)
AfterSetupRetrying(st, tm, reg, cfg, outcome) ==
    LET name == st.enabledModules[st.idx].name
        e    == endTimer(tm, TimerName("setup_", name))
    IN  IF outcome = "rejected" \/ e.threw
        THEN SetupFrom(Logged(Settled(st, outcome), "setup", name), tm, reg, cfg,
                       st.idx)
        ELSE SetupFrom(Settled(st, outcome), e.timers, reg, cfg, st.idx + 1)

(* setupModules behind `await module.setup(config)` *)
AfterSetup(st, tm, reg, cfg, outcome) ==
    LET name == st.enabledModules[st.idx].name
        e    == endTimer(tm, TimerName("setup_", name))
    IN  IF outcome = "rejected" \/ e.threw
        THEN SetupFrom(Logged(Settled(st, outcome), "setup", name), tm, reg, cfg,
                       st.idx + 1)
        ELSE SetupFrom(Settled(st, outcome), e.timers, reg, cfg, st.idx + 1)

----------------------------------------------------------------------------
(* The configuration (types/config, config/index, the config command) *)

(* a string value; the number tells the strings apart *)
Str(k) == [kind |-> "string", n |-> k]

UserNameJens  == Str(1)           \* 'Jens'
UserNameTest  == Str(2)           \* 'TestUser'
GitHubToken   == Str(3)           \* process.env.GITHUB_PERSONAL_TOKEN, when set
LinearKey     == Str(4)           \* process.env.LINEAR_API_KEY, when set
UserNameMigrated == Str(8)        \* 'MigratedUser'

(* the numbers of the strings that a configuration file can hold *)
StringNumbers == {1, 2, 3, 4, 8}

(* the sections of a configuration and the fields of the sections *)
Sections == {"user", "github", "linear", "display"}

AllFields == {"userName", "personalToken", "maxPRs", "apiKey", "logLevel"}

SectionOf(field) ==
    CASE field = "userName"      -> "user"
      [] field = "personalToken" -> "github"
      [] field = "maxPRs"        -> "github"
      [] field = "apiKey"        -> "linear"
      [] field = "logLevel"      -> "display"

(* A configuration is the value of each section, which is an object (this    *)
(* mark), undefined when the key is missing, or some other value, and the    *)
(* value of each field of the sections that are objects; a field that the    *)
(* object lacks reads undefined.                                             *)
AnObject == [kind |-> "object", n |-> 0]

NoFields == [f \in AllFields |-> Undefined]

NoSections == [s \in Sections |-> Undefined]

(* defaultConfig: the tokens are read from the environment at load *)
defaultConfig(tk) ==
    [secs   |-> [s \in Sections |-> AnObject],
     fields |-> [userName      |-> UserNameJens,
                 personalToken |-> IF tk THEN GitHubToken ELSE Undefined,
                 maxPRs        |-> Num(5),
                 apiKey        |-> IF tk THEN LinearKey ELSE Undefined,
                 logLevel      |-> Num(1)]]

(* the numbers of the configurations: log levels, maxPRs *)
ConfigNumbers == {1, 5, 10}

(* JSON text of a value; a key with the value undefined is left out, which   *)
(* is the empty text here                                                    *)
NoKey == <<>>

StringifyField(v) ==
    CASE v.kind = "undefined" -> NoKey
      [] v.kind = "string"    -> <<"\"", ToString(v.n), "\"">>
      [] v.kind = "object"    -> <<"{", "}">>
      [] OTHER                -> JSONStringify(v)

(* the value of JSON text *)
ParseField(text) ==
    IF text = NoKey THEN Undefined
    ELSE IF text = <<"{", "}">> THEN AnObject
    ELSE IF Len(text) = 3 /\ text[1] = "\"" /\ text[3] = "\""
    THEN Str(CHOOSE k \in StringNumbers : ToString(k) = text[2])
    ELSE IF text = <<"null">> THEN Null
    ELSE Num(CHOOSE k \in ConfigNumbers : ToString(k) = text[1])

(* config.json: absent, text that is not JSON, JSON null, or a JSON object   *)
(* with the text of its sections and of their fields                         *)
NoConfigFile == [kind |-> "absent", secs |-> [s \in Sections |-> NoKey],
                 fields |-> [f \in AllFields |-> NoKey]]
InvalidJson  == [NoConfigFile EXCEPT !.kind = "invalid"]
JsonNull     == [NoConfigFile EXCEPT !.kind = "null"]

(* JSON.stringify(config, null, 2) *)
StringifyConfig(cfg) ==
    [kind   |-> "object",
     secs   |-> [s \in Sections |-> StringifyField(cfg.secs[s])],
     fields |-> [f \in AllFields |->
                    IF cfg.secs[SectionOf(f)] = AnObject
                    THEN StringifyField(cfg.fields[f]) ELSE NoKey]]

(* JSON.parse(configData) as the object that is spread: null spreads nothing *)
ParseConfig(file) ==
    IF file.kind = "null" THEN [secs |-> NoSections, fields |-> NoFields]
    ELSE [secs   |-> [s \in Sections |-> ParseField(file.secs[s])],
          fields |-> [f \in AllFields |-> ParseField(file.fields[f])]]

(* a bug: the spread in the other order, the defaults replace the file's     *)
(* sections                                                                  *)
ShallowMergeDefaultsLast(def, user) == def

(* { ...defaultConfig, ...userConfig }: a key of userConfig replaces the     *)
(* whole section                                                             *)
ShallowMerge(def, user) ==
    [secs   |-> [s \in Sections |->
                    IF user.secs[s] = Undefined THEN def.secs[s] ELSE user.secs[s]],
     fields |-> [f \in AllFields |->
                    IF user.secs[SectionOf(f)] = Undefined THEN def.fields[f]
                    ELSE user.fields[f]]]

(* the merge of loadCurrentConfig: the shallow merge, then each section is   *)
(* { ...defaultConfig.section, ...userConfig.section }; a value that is not  *)
(* an object spreads no fields                                               *)
DeepMerge(def, user) ==
    [secs   |-> [s \in Sections |-> AnObject],
     fields |-> [f \in AllFields |->
                    IF user.secs[SectionOf(f)] = AnObject /\ user.fields[f] # Undefined
                    THEN user.fields[f] ELSE def.fields[f]]]

ConfigFaults == {"none", "mkdir", "readFile", "writeFile"}

(* saveConfig(config): writeFile; a failure is caught and logged *)
saveConfig(dir, file, cfg, fault) ==
    IF ~dir \/ fault = "writeFile" THEN file ELSE StringifyConfig(cfg)

(* config.display.logLevel throws a TypeError *)
LogLevelThrows(cfg) == cfg.secs["display"] \in {Null, Undefined}

(* loadConfig(): mkdir, readFile, JSON.parse, shallow merge; when the file   *)
(* cannot be read the defaults are saved and returned; when mkdir fails the  *)
(* defaults are returned: in both cases the object defaultConfig itself, as  *)
(* it is at the time                                                         *)
loadConfig(def, dir, file, fault) ==
    LET cfg == ShallowMerge(def, ParseConfig(file))
    IN  IF fault = "mkdir" THEN [res |-> def, dir |-> dir, file |-> file]
        ELSE IF \/ file.kind \in {"absent", "invalid"}
                \/ fault = "readFile"
                \/ LogLevelThrows(cfg)
             THEN [res |-> def, dir |-> TRUE, file |-> saveConfig(TRUE, file, def, fault)]
        ELSE [res |-> cfg, dir |-> TRUE, file |-> file]

(* loadCurrentConfig() of the config command *)
loadCurrentConfig(tk, dir, file, fault) ==
    LET def == defaultConfig(tk)
    IN  IF fault = "mkdir" THEN [res |-> def, dir |-> dir]
        ELSE IF file.kind \in {"absent", "invalid"} \/ fault = "readFile"
             THEN [res |-> def, dir |-> TRUE]
        ELSE [res |-> DeepMerge(def, ParseConfig(file)), dir |-> TRUE]

(* config.zsh: absent, or the values of its USER_NAME and GITHUB_MAX_PRS      *)
(* lines, undefined for a line that the file lacks                           *)
NoZshFile == [exists |-> FALSE, userName |-> Undefined, maxPRs |-> Undefined]

ZshFiles ==
    {NoZshFile,
     \* comments, or only WELCOME_DATA_DIR and other top-level keys
     [NoZshFile EXCEPT !.exists = TRUE],
     \* USER_NAME="MigratedUser"
     [NoZshFile EXCEPT !.exists = TRUE, !.userName = UserNameMigrated],
     \* GITHUB_MAX_PRS=10
     [NoZshFile EXCEPT !.exists = TRUE, !.maxPRs = Num(10)]}

(* migrateFromZsh(): null when config.zsh is absent or cannot be read; else  *)
(* `config = { ...defaultConfig }` copies the top-level keys, so that each   *)
(* section of config is the section object of defaultConfig, and the         *)
(* assignments `config.user.userName = value` and `config.github.maxPRs =    *)
(* parseInt(value, 10)` write into defaultConfig; config is saved and        *)
(* returned                                                                  *)
migrateFromZsh(def, dir, file, zsh, fault) ==
    LET copy == [def EXCEPT
                     !.fields["userName"] =
                         IF zsh.userName # Undefined THEN zsh.userName ELSE @,
                     !.fields["maxPRs"] =
                         IF zsh.maxPRs # Undefined THEN zsh.maxPRs ELSE @]
    IN  IF ~zsh.exists \/ fault = "readFile"
        THEN [res |-> Null, defaults |-> def, file |-> file]
        ELSE [res |-> copy, defaults |-> copy,
              file |-> saveConfig(dir, file, copy, fault)]

(* the files a user may have left in place of config.json *)
UserFiles ==
    {NoConfigFile, InvalidJson, JsonNull,
     StringifyConfig([secs |-> NoSections, fields |-> NoFields]),
     \* { "github": { "maxPRs": 10 } }: a section with only some of its fields
     StringifyConfig([secs   |-> [NoSections EXCEPT !["github"] = AnObject],
                      fields |-> [NoFields EXCEPT !.maxPRs = Num(10)]]),
     \* { "display": null }: a section of invalid type
     [StringifyConfig([secs |-> NoSections, fields |-> NoFields])
         EXCEPT !.secs["display"] = <<"null">>],
     \* { "user": { "userName": null } }: a field of invalid type
     [StringifyConfig([secs   |-> [NoSections EXCEPT !["user"] = AnObject],
                       fields |-> NoFields])
         EXCEPT !.fields["userName"] = <<"null">>],
     \* a complete configuration without tokens
     StringifyConfig(defaultConfig(FALSE))}

(* the complete configurations handed to saveConfig: { ...defaultConfig,     *)
(* user: ..., github: ... }                                                  *)
CompleteConfigs(tk) ==
    {[defaultConfig(tk) EXCEPT !.fields["userName"] = u, !.fields["maxPRs"] = m] :
        u \in {UserNameJens, UserNameTest}, m \in {Num(5), Num(10), NaN}}

(* no configuration *)
NoConfig == [secs |-> NoSections, fields |-> NoFields]

(* the config command: the prompt it waits at, the selection, the           *)
(* configuration it loaded, whether a prompt was cancelled or failed, and    *)
(* the exit code                                                             *)
MenuOff == [pc |-> "off", selection |-> "none", config |-> NoConfig,
            cancelled |-> FALSE, failed |-> FALSE, code |-> -1]

MenuChoices == {"apiKeys", "user", "github", "linear", "display", "exit"}

(* how a prompt ends: with answers, by the user's cancel, by another error *)
PromptOutcomes == {"answers", "cancel", "error"}

(* the answers a section handler can get *)
AnswersOf(section) ==
    CASE section = "user"    -> {[NoFields EXCEPT !.userName = UserNameTest]}
      [] section = "github"  -> {[NoFields EXCEPT !.maxPRs = Num(10)],
                                 [NoFields EXCEPT !.maxPRs = NaN]}
      [] section = "display" -> {[NoFields EXCEPT !.logLevel = Num(1)]}
      [] OTHER               -> {NoFields}

(* the configuration that a handler stores: the GitHub and Linear handlers   *)
(* spread the answers over the section, the others replace the section       *)
Answered(cfg, section, answers) ==
    [secs   |-> [cfg.secs EXCEPT ![section] = AnObject],
     fields |-> [f \in AllFields |->
                    IF SectionOf(f) # section THEN cfg.fields[f]
                    ELSE IF answers[f] # Undefined THEN answers[f]
                    ELSE IF section \in {"github", "linear"} /\ cfg.secs[section] = AnObject
                    THEN cfg.fields[f]
                    ELSE Undefined]]

(* process.exit(code) *)
Exit(m, code) == [m EXCEPT !.pc = "exited", !.code = code]

NoConfigOp == [op |-> "none", cfg |-> NoConfig, faulted |-> FALSE]

(* the configuration is not touched *)
ConfigIdle ==
    /\ tokens = FALSE
    /\ defaults = defaultConfig(FALSE)
    /\ configDir = FALSE
    /\ configFile = NoConfigFile
    /\ menu = MenuOff
    /\ lastConfig = NoConfigOp

----------------------------------------------------------------------------
(* The configuration that init hands to setupModules and displayWelcome *)

(* config.performance: the default, and a configuration that asks for      *)
(* parallel execution within a deadline of no time at all                    *)
DefaultPerformance == [parallelExecution |-> FALSE, maxExecutionTime |-> 1]

PerformanceConfigs ==
    {DefaultPerformance, [parallelExecution |-> TRUE, maxExecutionTime |-> 0]}

(* no configuration is in use *)
NoRunConfig == [enabledModules |-> <<>>, array |-> TRUE,
                performance |-> DefaultPerformance]

(* a configuration whose enabledModules is not an array: loadConfig spreads  *)
(* whatever config.json holds under that key, null for one                   *)
NotAnArray == [enabledModules |-> <<>>, array |-> FALSE,
               performance |-> DefaultPerformance]

----------------------------------------------------------------------------
(* measureTime and measureTimeSync (utils/performance) *)

(* the timer names of the tests *)
MeasureNames == {<<"test">>, <<"sync">>}

(* what the wrapped function does: it gives a value or an error; a           *)
(* synchronous one may itself measure a function under the same name         *)
AsyncFns == {"value", "error"}
SyncFns  == {"value", "error", "nested"}

NoMeasure == [pc |-> "idle", name |-> <<"test">>, fn |-> "none", result |-> "none",
              left |-> FALSE]

NoTimerCall == [op |-> "none", name |-> <<"test">>, started |-> FALSE, threw |-> FALSE]

MeasureIdle == [calls |-> [c \in 1..MaxMeasures |-> NoMeasure], last |-> NoTimerCall]

(* `finally { endTimer(name) }`: an error of endTimer takes the place of the *)
(* function's result or error                                                *)
measureFinally(tm, name, outcome) ==
    LET e == endTimer(tm, name)
    IN  [result |-> IF e.threw THEN "timer error" ELSE outcome, timers |-> e.timers]

(* measureTimeSync(name, fn) *)
measureTimeSync(tm, name, fn) ==
    LET started == startTimer(tm, name)
        inner   == IF fn = "nested"
                     THEN measureFinally(startTimer(started, name), name, "value")
                     ELSE [result |-> fn, timers |-> started]
    IN  measureFinally(inner.timers, name, inner.result)

----------------------------------------------------------------------------
(* The data-source modules: github, linearStalled, weather *)

EmptyString == Str(0)
GitHubLogin == Str(5)
NewYork     == Str(6)
Oslo        == Str(7)

(* a || b *)
Or(a, b) == IF Truthy(a) THEN a ELSE b

(* one piece of the text that a module's display returns *)
Frag(text, n) == [text |-> text, n |-> n]

(* config.linear.teamNames: the default names, up to MaxTeams of them in any *)
(* order                                                                     *)
TeamNames == {"Application", "Security", "Dev Ops"}

TeamLists ==
    {s \in UNION {[1..n -> TeamNames] : n \in 0..MaxTeams} :
        \A i, j \in 1..Len(s) : s[i] = s[j] => i = j}

(* the three searches of GitHubModule.display, in the order of the code *)
GitHubSections == <<"review", "created", "mentions">>

(* showAssignedPRs, showCreatedPRs, showMentions *)
Shown(cfg, section) ==
    CASE section = "review"   -> cfg.showAssignedPRs
      [] section = "created"  -> cfg.showCreatedPRs
      [] section = "mentions" -> cfg.showMentions

(* what an apiRequest of display settles with: it rejects, or it resolves    *)
(* with data of which the model keeps one number (total_count and the items  *)
(* listed, the stalled issues, the temperature)                              *)
SectionOutcomes ==
    {[failed |-> TRUE, count |-> 0], [failed |-> FALSE, count |-> 0],
     [failed |-> FALSE, count |-> 2]}

(* what fetch of https://api.github.com/user gives getUsername *)
UserFetches == {"rejected", "login"}

(* what geocodeCity gives: the fetch rejects, no result, or a place; one     *)
(* place lies on the equator                                                 *)
GeoOutcomes ==
    {[kind |-> "rejected", latitude |-> Undefined, longitude |-> Undefined, name |-> Undefined],
     [kind |-> "none", latitude |-> Undefined, longitude |-> Undefined, name |-> Undefined],
     [kind |-> "found", latitude |-> Num(60), longitude |-> Num(11), name |-> Oslo],
     [kind |-> "found", latitude |-> Num(0), longitude |-> Num(11), name |-> Oslo]}

(* of the configuration, what the three modules read: config.github,       *)
(* config.linear or config.weather as `section` (an object, or the null that *)
(* loadConfig lets through from config.json) and their fields                *)
(* config.cache.githubDuration and weatherDuration: the default and another  *)
(* number of seconds                                                         *)
GitHubDurations == {300, 600}

WeatherDurations == {3600, 600}

NoSourceConfig ==
    [section |-> AnObject, personalToken |-> Undefined, username |-> Undefined, showAssignedPRs |-> FALSE,
     showCreatedPRs |-> FALSE, showMentions |-> FALSE, apiKey |-> Undefined,
     teamNames |-> <<>>, city |-> Undefined,
     githubDuration |-> 300, weatherDuration |-> 3600, quoteDuration |-> 86400,
     maxPRs |-> 5, daysStalled |-> 3, units |-> "imperial"]

NoEnv == [GITHUB_PERSONAL_TOKEN |-> Undefined, GITHUB_TOKEN |-> Undefined]

(* a module object after construction, with the configuration and the       *)
(* environment it is going to be called with                                 *)
NewModule(name, cfg, env) ==
    [name |-> name, cfg |-> cfg, env |-> env, pc |-> "new",
     token |-> Undefined, username |-> Undefined, client |-> FALSE,
     lat |-> Undefined, lon |-> Undefined, locationName |-> Undefined,
     setupRejected |-> FALSE, idx |-> 0, requests |-> <<>>, cacheAges |-> <<>>,
     keys |-> <<>>,
     failed |-> {},
     results |-> [s \in {"review", "created", "mentions"} |-> 0], output |-> <<>>]

SourceIdle == NewModule("none", NoSourceConfig, NoEnv)

(* getToken(config.github) *)
getToken(cfg, env) ==
    Or(cfg.personalToken, Or(env.GITHUB_PERSONAL_TOKEN, env.GITHUB_TOKEN))

(* getUsername(config) *)
getUsername(cfg, env, fetched) ==
    IF Truthy(cfg.username) THEN cfg.username
    ELSE IF ~Truthy(getToken(cfg, env)) THEN Undefined
    ELSE IF fetched = "rejected" THEN Undefined
    ELSE GitHubLogin

(* GitHubModule.setup; reading a field of config.github throws when it is   *)
(* null                                                                      *)
githubSetup(m, fetched) ==
    IF m.cfg.section = Null THEN [m EXCEPT !.pc = "ready", !.setupRejected = TRUE]
    ELSE [m EXCEPT !.pc = "ready",
                   !.token = getToken(m.cfg, m.env),
                   !.username = Or(m.cfg.username, getUsername(m.cfg, m.env, fetched))]

(* LinearStalledModule.setup; the team ids it looks up only choose the call  *)
(* by which display's producer finds a team                                  *)
linearSetup(m) ==
    IF m.cfg.section = Null THEN [m EXCEPT !.pc = "ready", !.setupRejected = TRUE]
    ELSE IF ~Truthy(m.cfg.apiKey) THEN [m EXCEPT !.pc = "ready"]
    ELSE [m EXCEPT !.pc = "ready", !.client = TRUE]

(* WeatherModule.setup *)
weatherSetup(m, geo) ==
    LET named == [m EXCEPT !.pc = "ready",
                           !.locationName = IF ~Truthy(m.cfg.city) THEN NewYork
                                            ELSE m.cfg.city]
    IN  CASE m.cfg.section = Null -> [m EXCEPT !.pc = "ready", !.setupRejected = TRUE]
          [] geo.kind = "found" ->
               [named EXCEPT !.lat = geo.latitude, !.lon = geo.longitude,
                             !.locationName = geo.name]
          [] geo.kind = "none" -> named
          [] geo.kind = "rejected" -> [named EXCEPT !.setupRejected = TRUE]

(* the sub-sections that display requests, in order *)
SectionsOf(m) ==
    CASE m.name = "github" -> SelectSeq(GitHubSections, LAMBDA s : Shown(m.cfg, s))
      [] m.name = "linearStalled" -> m.cfg.teamNames
      [] OTHER -> <<"weather">>

(* display throws *)
Reject(m) == [m EXCEPT !.pc = "rejected"]

(* display returns *)
Resolve(m, output) == [m EXCEPT !.pc = "resolved", !.output = output]

(* '2 hours cache' *)
LinearCacheAge == 7200

(* the cacheAge argument of the module's apiRequest *)
CacheAgeOf(m) ==
    CASE m.name = "github" -> m.cfg.githubDuration
      [] m.name = "weather" -> m.cfg.weatherDuration
      [] m.name = "linearStalled" -> LinearCacheAge

(* getUnits(config.weather) *)
getUnits(cfg) == IF cfg.units = "imperial" THEN "fahrenheit" ELSE "celsius"

(* a team name as its characters; letters that are neither upper case nor    *)
(* white space stay together                                                 *)
Chars(teamName) ==
    CASE teamName = "Application" -> <<"A", "pplication">>
      [] teamName = "Security"    -> <<"S", "ecurity">>
      [] teamName = "Dev Ops"     -> <<"D", "ev", " ", "O", "ps">>
      [] teamName = "Dev_Ops"     -> <<"D", "ev", "_", "O", "ps">>

(* String.prototype.toLowerCase *)
toLowerCase(s) ==
    [i \in DOMAIN s |-> CASE s[i] = "A" -> "a" [] s[i] = "S" -> "s"
                           [] s[i] = "D" -> "d" [] s[i] = "O" -> "o"
                           [] OTHER -> s[i]]

(* replace(/\s+/g, '_') *)
RECURSIVE replaceWhitespace(_)
replaceWhitespace(s) ==
    IF s = <<>> THEN <<>>
    ELSE IF Head(s) # " " THEN <<Head(s)>> \o replaceWhitespace(Tail(s))
    ELSE IF Len(s) > 1 /\ s[2] = " " THEN replaceWhitespace(Tail(s))
    ELSE <<"_">> \o replaceWhitespace(Tail(s))

(* what a request asks for: the module, the type of the query (the search   *)
(* of GitHub, the units of the weather), its subject (the account, the       *)
(* coordinates, the team) and its limit (per_page, the days stalled)         *)
Query(module, type, subject, limit) ==
    [module |-> module, type |-> type, subject |-> subject, limit |-> limit]

(* the request of display for its i-th sub-section *)
QueryOf(m, i) ==
    CASE m.name = "github" ->
           Query("github", SectionsOf(m)[i], <<ToString(m.username.n)>>, m.cfg.maxPRs)
      [] m.name = "weather" ->
           Query("weather", getUnits(m.cfg), <<ToString(m.lat.n), ToString(m.lon.n)>>, 0)
      [] m.name = "linearStalled" ->
           Query("linearStalled", "", Chars(m.cfg.teamNames[i]), m.cfg.daysStalled)

(* the cache key: `github_review_${username}` and its likes,                 *)
(* `weather_${lat}_${lon}_${units}`, `linear_stalled_${team name, white      *)
(* space to '_', in lower case}`                                             *)
CacheKey(q) ==
    CASE q.module = "github" -> <<"github_", q.type, "_">> \o q.subject
      [] q.module = "weather" ->
           <<"weather_", q.subject[1], "_", q.subject[2], "_", q.type>>
      [] q.module = "linearStalled" ->
           <<"linear_stalled_">> \o toLowerCase(replaceWhitespace(q.subject))

(* display awaits apiRequest for its i-th sub-section *)
Request(m, i) ==
    [m EXCEPT !.pc = "awaiting", !.idx = i,
              !.requests = Append(m.requests, SectionsOf(m)[i]),
              !.keys = Append(m.keys, CacheKey(QueryOf(m, i))),
              !.cacheAges = Append(m.cacheAges, CacheAgeOf(m))]

(* the summary line and the details that GitHubModule.display builds *)
githubMessage(cfg, results) ==
    <<Frag("GitHub:", 0)>>
    \o (IF cfg.showAssignedPRs
          THEN <<Frag("PRs awaiting your review", results["review"])>> ELSE <<>>)
    \o (IF cfg.showCreatedPRs
          THEN <<Frag("created by you", results["created"])>> ELSE <<>>)
    \o (IF cfg.showMentions
          THEN <<Frag("mentions", results["mentions"])>> ELSE <<>>)
    \o (IF results["review"] > 0
          THEN <<Frag("PRs awaiting your review:", results["review"])>> ELSE <<>>)
    \o (IF results["created"] > 0
          THEN <<Frag("Your open PRs:", results["created"])>> ELSE <<>>)
    \o (IF results["mentions"] > 0
          THEN <<Frag("PR mentions:", results["mentions"])>> ELSE <<>>)

(* `!this.token || !this.username` *)
githubUnconfigured(m) == ~Truthy(m.token) \/ ~Truthy(m.username)

(* GitHubModule.display, up to its first await or its return *)
githubDisplay(m) ==
    IF githubUnconfigured(m) THEN Resolve(m, <<Frag("GitHub API not configured", 0)>>)
    ELSE IF m.cfg.section = Null THEN Reject(m)
    ELSE IF SectionsOf(m) = <<>> THEN Resolve(m, githubMessage(m.cfg, m.results))
    ELSE Request(m, 1)

(* GitHubModule.display from the settling of an apiRequest on *)
githubSettle(m, out) ==
    LET s == SectionsOf(m)[m.idx]
        n == IF out.failed
               THEN [m EXCEPT !.failed = m.failed \cup {s}]
               ELSE [m EXCEPT !.results = [m.results EXCEPT ![s] = out.count]]
    IN  IF m.idx < Len(SectionsOf(m)) THEN Request(n, m.idx + 1)
        ELSE Resolve(n, githubMessage(n.cfg, n.results))

(* the loop of LinearStalledModule.display from team i on *)
linearTeamsFrom(m, i) ==
    IF i > Len(m.cfg.teamNames) THEN [m EXCEPT !.pc = "resolved"]
    ELSE Request([m EXCEPT !.output = Append(m.output, Frag(m.cfg.teamNames[i], 0))], i)

(* LinearStalledModule.display, up to its first await or its return *)
linearDisplay(m) ==
    IF m.cfg.section = Null THEN Reject(m)
    ELSE IF ~m.client THEN Resolve(m, <<Frag("Linear API not configured", 0)>>)
    ELSE linearTeamsFrom([m EXCEPT !.output = <<Frag("Linear Stalled Issues:", 0)>>], 1)

(* LinearStalledModule.display from the settling of an apiRequest on *)
linearSettle(m, out) ==
    LET s == m.cfg.teamNames[m.idx]
        n == IF out.failed
               THEN [m EXCEPT !.failed = m.failed \cup {s},
                              !.output = Append(m.output, Frag("Failed to fetch issues", 0))]
               ELSE IF out.count = 0
               THEN [m EXCEPT !.output = Append(m.output, Frag("No stalled issues!", 0))]
               ELSE [m EXCEPT !.output = Append(m.output, Frag("days", out.count))]
    IN  linearTeamsFrom(n, m.idx + 1)

(* WeatherModule.display, up to its await or its return *)
weatherDisplay(m) ==
    IF ~Truthy(m.lat) \/ ~Truthy(m.lon)
      THEN Resolve(m, <<Frag("Could not find location", 0)>>)
    ELSE IF m.cfg.section = Null THEN Reject(m)
    ELSE Request(m, 1)

(* WeatherModule.display from the settling of its apiRequest on; of the     *)
(* message the model keeps the temperature and the place                     *)
weatherSettle(m, out) ==
    IF out.failed
      THEN Resolve([m EXCEPT !.failed = {"weather"}],
                   <<Frag("Failed to retrieve weather data", 0)>>)
    ELSE Resolve(m, <<Frag("Weather:", out.count), Frag("in", m.locationName.n)>>)

----------------------------------------------------------------------------
(* A client of the cache: one operation after the other *)

NoCall == [active |-> FALSE, name |-> <<"api">>, maxAge |-> 0, faulted |-> FALSE]

NoOp == [op |-> "none", name |-> <<"api">>, maxAge |-> 0, arg |-> Undefined,
         res |-> Undefined, threw |-> FALSE, calls |-> 0, faulted |-> FALSE,
         time |-> 0]

Done(op, name, maxAge, arg, out, calls, faulted) ==
    [op |-> op, name |-> name, maxAge |-> maxAge, arg |-> arg, res |-> out.res,
     threw |-> out.threw, calls |-> calls, faulted |-> faulted, time |-> now]

InitCache ==
    /\ now = 0
    /\ cacheDir = FALSE
    /\ files = [f \in CacheFiles |-> NoFile]
    /\ pending = NoCall
    /\ last = NoOp
    /\ runDirect = FALSE
    /\ registry = BuiltInRegistry
    /\ context = EmptyRegistry
    /\ config = NoRunConfig
    /\ timers = {}
    /\ pass = [p \in {1, 2} |-> IdlePass]
    /\ ConfigIdle
    /\ source = SourceIdle
    /\ measure = MeasureIdle

Tick ==
    /\ now + TickMs <= MaxTicks * TickMs
    /\ now' = now + TickMs
    /\ UNCHANGED <<cacheDir, files, pending, last, runVars, cfgVars, srcVars>>

EnsureCacheDir ==
    /\ ~pending.active
    /\ \E fault \in {"none", "mkdir"} :
         LET d == ensureCacheDir(cacheDir, fault)
         IN  /\ cacheDir' = d.dir
             /\ last' = Done("ensureCacheDir", <<"api">>, 0, Undefined,
                             [threw |-> d.threw, res |-> Undefined], 0,
                             fault # "none")
    /\ UNCHANGED <<now, files, pending, runVars, cfgVars, srcVars>>

GetCache ==
    /\ ~pending.active
    /\ \E name \in CacheNames, maxAge \in MaxAges, fault \in ReadFaults :
         last' = Done("getCache", name, maxAge, Undefined,
                      getCache(files, now, name, maxAge, fault), 0, fault # "none")
    /\ UNCHANGED <<now, cacheDir, files, pending, runVars, cfgVars, srcVars>>

SaveCache ==
    /\ ~pending.active
    /\ \E name \in CacheNames, data \in Values, fault \in WriteFaults :
         LET st == saveCache(cacheDir, files, now, name, data, fault)
         IN  /\ cacheDir' = st.dir
             /\ files' = st.files
             /\ last' = Done("saveCache", name, 0, data,
                             [threw |-> st.threw, res |-> Undefined], 0,
                             fault # "none")
    /\ UNCHANGED <<now, pending, runVars, cfgVars, srcVars>>

(* apiRequest up to `await requestFn()`: the cached value is returned, or the *)
(* request is made                                                            *)
ApiRequest ==
    /\ ~pending.active
    /\ \E name \in CacheNames, cacheAge \in MaxAges, fault \in ReadFaults :
         LET cached == getCache(files, now, name, cacheAge, fault)
         IN  IF cached.threw \/ CacheHit(cached.res)
             THEN /\ last' = Done("apiRequest", name, cacheAge, Undefined,
                                  cached, 0, fault # "none")
                  /\ UNCHANGED pending
             ELSE /\ pending' = [active |-> TRUE, name |-> name,
                                 maxAge |-> cacheAge, faulted |-> fault # "none"]
                  /\ last' = NoOp
    /\ UNCHANGED <<now, cacheDir, files, runVars, cfgVars, srcVars>>

(* requestFn() settles and apiRequest ends *)
ApiSettle ==
    /\ pending.active
    /\ \E outcome \in ProducerOutcomes, fault \in WriteFaults :
         LET r == apiSettle(cacheDir, files, now, pending.name, outcome, fault)
         IN  /\ cacheDir' = r.dir
             /\ files' = r.files
             /\ last' = Done("apiRequest", pending.name, pending.maxAge, outcome,
                             r, 1,
                             pending.faulted \/ (outcome # Rejects /\ fault # "none"))
    /\ pending' = NoCall
    /\ UNCHANGED <<now, runVars, cfgVars, srcVars>>

NextCache ==
    Tick \/ EnsureCacheDir \/ GetCache \/ SaveCache \/ ApiRequest \/ ApiSettle

SpecCache == InitCache /\ [][NextCache]_vars

----------------------------------------------------------------------------
(* The program run: the load of the entry file and its calls of init() *)

(* pass 1 is the init() at the end of the entry file, pass 2 the init() under *)
(* `if (require.main === module)`                                             *)
Passes == {1, 2}

Init ==
    /\ now = 0
    /\ cacheDir \in BOOLEAN
    /\ files = [f \in CacheFiles |-> NoFile]
    /\ pending = NoCall
    /\ last = NoOp
    /\ runDirect \in BOOLEAN
    /\ registry \in {BuiltInRegistry, registerAll(BuiltInRegistry, ExtraModules)}
    /\ context \in IF runDirect THEN {EmptyRegistry} ELSE {EmptyRegistry, CallerRegistry}
    /\ config \in [enabledModules :
                     IF runDirect THEN EnabledLists(MaxEnabledOverlap)
                     ELSE EnabledLists(MaxEnabled) \cup {DefaultEnabledModules},
                   array : {TRUE},
                   performance : IF runDirect THEN {DefaultPerformance}
                                 ELSE PerformanceConfigs]
                  \cup (IF context = EmptyRegistry THEN {NotAnArray} ELSE {})
    /\ timers = {}
    /\ pass = [p \in Passes |-> IdlePass]
    /\ ConfigIdle
    /\ source = SourceIdle
    /\ measure = MeasureIdle

(* a caller's setupModules.call({ moduleRegistry: context }, config), to be  *)
(* followed by displayWelcome.call({ moduleRegistry: context }, config)      *)
CallWithContext ==
    /\ context # EmptyRegistry
    /\ pass[1].pc = "idle"
    /\ LET r == setupModules(pass[1], timers, registry, config)
       IN  /\ pass' = [pass EXCEPT ![1] = r.st]
           /\ timers' = r.timers
    /\ UNCHANGED <<srcVars, cfgVars, cacheVars, runDirect, registry, context, config>>

(* the entry file is loaded: each init() runs up to `await ensureCacheDir()` *)
LoadEntry ==
    /\ context = EmptyRegistry
    /\ \A p \in Passes : pass[p].pc = "idle"
    /\ pass' = [p \in Passes |->
                  IF p = 1 \/ runDirect THEN [pass[p] EXCEPT !.pc = "ensureCacheDir"]
                  ELSE pass[p]]
    /\ UNCHANGED <<srcVars, cfgVars, cacheVars, runDirect, registry, context, config, timers>>

(* ensureCacheDir() settles and init calls loadConfig() *)
InitEnsureCacheDir(p) ==
    /\ pass[p].pc = "ensureCacheDir"
    /\ \E fault \in {"none", "mkdir"} :
         cacheDir' = ensureCacheDir(cacheDir, fault).dir
    /\ pass' = [pass EXCEPT ![p].pc = "loadConfig"]
    /\ UNCHANGED <<srcVars, cfgVars, now, files, pending, last, runDirect, registry, context, config,
                   timers>>

(* loadConfig() settles; init logs config.enabledModules.join(', '), which  *)
(* throws into the catch of init when the value has no join, and calls       *)
(* setupModules(config)                                                      *)
InitLoadConfig(p) ==
    /\ pass[p].pc = "loadConfig"
    /\ IF ~config.array
         THEN /\ pass' = [pass EXCEPT ![p].pc = "failed"]
              /\ UNCHANGED timers
         ELSE LET r == setupModules(pass[p], timers, registry, config)
              IN  /\ pass' = [pass EXCEPT ![p] = r.st]
                  /\ timers' = r.timers
    /\ UNCHANGED <<srcVars, cfgVars, cacheVars, runDirect, registry, context, config>>

(* module.setup(config) settles *)
SetupSettle(p) ==
    /\ pass[p].pc = "setup"
    /\ \E outcome \in SetupOutcomes :
         LET r == AfterSetup(pass[p], timers, registry, config, outcome)
         IN  /\ pass' = [pass EXCEPT ![p] = r.st]
             /\ timers' = r.timers
    /\ UNCHANGED <<srcVars, cfgVars, cacheVars, runDirect, registry, context, config>>

(* module.display(config) settles *)
DisplaySettle(p) ==
    /\ pass[p].pc = "display"
    /\ \E outcome \in DisplayOutcomes :
         LET r == AfterDisplay(pass[p], timers, outcome)
         IN  /\ pass' = [pass EXCEPT ![p] = r.st]
             /\ timers' = r.timers
    /\ UNCHANGED <<srcVars, cfgVars, cacheVars, runDirect, registry, context, config>>

Next ==
    \/ LoadEntry
    \/ CallWithContext
    \/ \E p \in Passes : InitEnsureCacheDir(p)
    \/ \E p \in Passes : InitLoadConfig(p)
    \/ \E p \in Passes : SetupSettle(p)
    \/ \E p \in Passes : DisplaySettle(p)

Spec == Init /\ [][Next]_vars

(* the program run in which every setup and display call that is awaited     *)
(* settles in the end                                                        *)
InitSettling ==
    /\ now = 0
    /\ cacheDir \in BOOLEAN
    /\ files = [f \in CacheFiles |-> NoFile]
    /\ pending = NoCall
    /\ last = NoOp
    /\ runDirect \in BOOLEAN
    /\ registry \in {BuiltInRegistry, registerAll(BuiltInRegistry, ExtraModules)}
    /\ context \in IF runDirect THEN {EmptyRegistry} ELSE {EmptyRegistry, CallerRegistry}
    /\ config \in [enabledModules :
                     IF runDirect THEN EnabledLists(MaxSettlingOverlap)
                     ELSE EnabledLists(MaxSettling) \cup {DefaultEnabledModules},
                   array : {TRUE},
                   performance : IF runDirect THEN {DefaultPerformance}
                                 ELSE PerformanceConfigs]
                  \cup (IF context = EmptyRegistry THEN {NotAnArray} ELSE {})
    /\ timers = {}
    /\ pass = [p \in Passes |-> IdlePass]
    /\ ConfigIdle
    /\ source = SourceIdle
    /\ measure = MeasureIdle

SpecSettling ==
    /\ InitSettling /\ [][Next]_vars
    /\ \A p \in Passes : WF_vars(SetupSettle(p)) /\ WF_vars(DisplaySettle(p))

----------------------------------------------------------------------------
(* The configuration file under loadConfig, saveConfig and the config       *)
(* command                                                                   *)

InitConfig ==
    /\ now = 0
    /\ cacheDir = FALSE
    /\ files = [f \in CacheFiles |-> NoFile]
    /\ pending = NoCall
    /\ last = NoOp
    /\ runDirect = FALSE
    /\ registry = BuiltInRegistry
    /\ context = EmptyRegistry
    /\ config = NoRunConfig
    /\ timers = {}
    /\ pass = [p \in {1, 2} |-> IdlePass]
    /\ tokens \in BOOLEAN
    /\ defaults = defaultConfig(tokens)
    /\ configDir \in BOOLEAN
    /\ configFile \in IF configDir THEN UserFiles ELSE {NoConfigFile}
    /\ menu = MenuOff
    /\ lastConfig = NoConfigOp
    /\ source = SourceIdle
    /\ measure = MeasureIdle

LoadConfig ==
    /\ \E fault \in ConfigFaults :
         LET r == loadConfig(defaults, configDir, configFile, fault)
         IN  /\ configDir' = r.dir
             /\ configFile' = r.file
             /\ lastConfig' = [op |-> "loadConfig", cfg |-> r.res,
                               faulted |-> fault # "none"]
    /\ UNCHANGED <<srcVars, cacheVars, runVars, tokens, defaults, menu>>

SaveConfig ==
    /\ \E cfg \in CompleteConfigs(tokens), fault \in {"none", "writeFile"} :
         /\ configFile' = saveConfig(configDir, configFile, cfg, fault)
         /\ lastConfig' = [op |-> "saveConfig", cfg |-> cfg,
                           faulted |-> fault # "none" \/ ~configDir]
    /\ UNCHANGED <<srcVars, cacheVars, runVars, tokens, defaults, configDir, menu>>

(* runConfigCommand() up to the first `await promptMainMenu()` *)
RunConfigCommand ==
    /\ menu.pc = "off"
    /\ menu' = [menu EXCEPT !.pc = "mainMenu"]
    /\ UNCHANGED <<srcVars, cacheVars, runVars, tokens, defaults, configDir, configFile, lastConfig>>

(* promptMainMenu() settles: the prompt was cancelled or failed, or the      *)
(* selection is 'exit', or loadCurrentConfig() is awaited and the handler    *)
(* of the section shows its prompt                                           *)
MainMenuSettle ==
    /\ menu.pc = "mainMenu"
    /\ \/ /\ menu' = Exit([menu EXCEPT !.cancelled = TRUE], 0)
          /\ UNCHANGED configDir
       \/ /\ menu' = Exit([menu EXCEPT !.failed = TRUE], 1)
          /\ UNCHANGED configDir
       \/ /\ menu' = [menu EXCEPT !.pc = "returned", !.selection = "exit"]
          /\ UNCHANGED configDir
       \/ \E selection \in MenuChoices \ {"exit"}, fault \in {"none", "mkdir", "readFile"} :
            LET r == loadCurrentConfig(tokens, configDir, configFile, fault)
            IN  /\ menu' = [menu EXCEPT !.pc = "handler", !.selection = selection,
                                        !.config = r.res]
                /\ configDir' = r.dir
    /\ UNCHANGED <<srcVars, cacheVars, runVars, tokens, defaults, configFile, lastConfig>>

(* the prompt of a section handler settles *)
HandlerSettle ==
    /\ menu.pc = "handler"
    /\ \/ \* the user cancels: handleApiKeys catches the error and returns,
          \* from the other handlers it reaches runConfigCommand
          /\ menu' = IF menu.selection = "apiKeys"
                     THEN [menu EXCEPT !.pc = "mainMenu", !.cancelled = TRUE,
                                       !.config = NoConfig]
                     ELSE Exit([menu EXCEPT !.cancelled = TRUE], 0)
          /\ UNCHANGED <<configFile, lastConfig>>
       \/ \* the prompt fails with another error
          /\ menu' = Exit([menu EXCEPT !.failed = TRUE], 1)
          /\ UNCHANGED <<configFile, lastConfig>>
       \/ \* handleApiKeys: updateEnvFile writes the shell file, or throws
          /\ menu.selection = "apiKeys"
          /\ \E fault \in {"none", "writeFile"} :
               menu' = IF fault = "writeFile"
                       THEN Exit([menu EXCEPT !.failed = TRUE], 1)
                       ELSE [menu EXCEPT !.pc = "mainMenu", !.config = NoConfig]
          /\ UNCHANGED <<configFile, lastConfig>>
       \/ \* the other handlers store the answers and save the configuration
          /\ menu.selection # "apiKeys"
          /\ \E answers \in AnswersOf(menu.selection), fault \in {"none", "writeFile"} :
               LET cfg == Answered(menu.config, menu.selection, answers)
               IN  /\ configFile' = saveConfig(configDir, configFile, cfg, fault)
                   /\ lastConfig' = [op |-> "handler", cfg |-> cfg,
                                     faulted |-> fault # "none" \/ ~configDir]
                   /\ menu' = [menu EXCEPT !.pc = "mainMenu", !.config = NoConfig]
    /\ UNCHANGED <<srcVars, cacheVars, runVars, tokens, defaults, configDir>>

NextConfig ==
    LoadConfig \/ SaveConfig \/ RunConfigCommand \/ MainMenuSettle \/ HandlerSettle

SpecConfig == InitConfig /\ [][NextConfig]_vars

----------------------------------------------------------------------------
(* A process that imports config/index and calls loadConfig, saveConfig and  *)
(* migrateFromZsh                                                            *)

(* config.zsh is a file of the configuration directory *)
MigrateFromZsh ==
    /\ \E zsh \in ZshFiles, fault \in {"none", "readFile", "writeFile"} :
         /\ zsh.exists => configDir
         /\ LET r == migrateFromZsh(defaults, configDir, configFile, zsh, fault)
            IN  /\ defaults' = r.defaults
                /\ configFile' = r.file
                /\ lastConfig' = [op |-> "migrateFromZsh", cfg |-> r.res,
                                  faulted |-> fault # "none"]
    /\ UNCHANGED <<srcVars, cacheVars, runVars, tokens, configDir, menu>>

NextMigrate == LoadConfig \/ SaveConfig \/ MigrateFromZsh

SpecMigrate == InitConfig /\ [][NextMigrate]_vars

----------------------------------------------------------------------------
(* A data-source module: setup, then display with its apiRequests *)

InitModules ==
    /\ now = 0
    /\ cacheDir = FALSE
    /\ files = [f \in CacheFiles |-> NoFile]
    /\ pending = NoCall
    /\ last = NoOp
    /\ runDirect = FALSE
    /\ registry = BuiltInRegistry
    /\ context = EmptyRegistry
    /\ config = NoRunConfig
    /\ timers = {}
    /\ pass = [p \in {1, 2} |-> IdlePass]
    /\ ConfigIdle
    /\ measure = MeasureIdle
    /\ \/ \E tk \in {Undefined, EmptyString, GitHubToken}, user \in {Undefined, GitHubLogin},
             a, c, me \in BOOLEAN, e1, e2 \in {Undefined, GitHubToken},
             age \in GitHubDurations :
            source = NewModule("github",
                        [NoSourceConfig EXCEPT !.personalToken = tk, !.username = user,
                                               !.githubDuration = age,
                                               !.showAssignedPRs = a, !.showCreatedPRs = c,
                                               !.showMentions = me],
                        [GITHUB_PERSONAL_TOKEN |-> e1, GITHUB_TOKEN |-> e2])
       \/ \E key \in {Undefined, EmptyString, LinearKey}, teams \in TeamLists :
            source = NewModule("linearStalled",
                        [NoSourceConfig EXCEPT !.apiKey = key, !.teamNames = teams], NoEnv)
       \/ \E city \in {Undefined, EmptyString, Oslo}, age \in WeatherDurations :
            source = NewModule("weather",
                        [NoSourceConfig EXCEPT !.city = city, !.weatherDuration = age],
                        NoEnv)
       \/ \E name \in {"github", "linearStalled", "weather"} :
            source = NewModule(name, [NoSourceConfig EXCEPT !.section = Null], NoEnv)

(* setupModules awaits module.setup(config) *)
ModuleSetup ==
    /\ source.pc = "new"
    /\ \/ /\ source.name = "github"
          /\ \E fetched \in UserFetches : source' = githubSetup(source, fetched)
       \/ /\ source.name = "linearStalled"
          /\ source' = linearSetup(source)
       \/ /\ source.name = "weather"
          /\ \E geo \in GeoOutcomes : source' = weatherSetup(source, geo)
    /\ UNCHANGED <<cacheVars, runVars, cfgVars, measure>>

(* displayWelcome calls module.display(config) *)
ModuleDisplay ==
    /\ source.pc = "ready"
    /\ source' = CASE source.name = "github" -> githubDisplay(source)
                   [] source.name = "linearStalled" -> linearDisplay(source)
                   [] source.name = "weather" -> weatherDisplay(source)
    /\ UNCHANGED <<cacheVars, runVars, cfgVars, measure>>

(* the apiRequest that display awaits settles *)
RequestSettle ==
    /\ source.pc = "awaiting"
    /\ \E out \in SectionOutcomes :
         source' = CASE source.name = "github" -> githubSettle(source, out)
                     [] source.name = "linearStalled" -> linearSettle(source, out)
                     [] source.name = "weather" -> weatherSettle(source, out)
    /\ UNCHANGED <<cacheVars, runVars, cfgVars, measure>>

NextModules == ModuleSetup \/ ModuleDisplay \/ RequestSettle

SpecModules == InitModules /\ [][NextModules]_vars

----------------------------------------------------------------------------
(* The timers under startTimer, endTimer, measureTime and measureTimeSync *)

InitTimers ==
    /\ now = 0
    /\ cacheDir = FALSE
    /\ files = [f \in CacheFiles |-> NoFile]
    /\ pending = NoCall
    /\ last = NoOp
    /\ runDirect = FALSE
    /\ registry = BuiltInRegistry
    /\ context = EmptyRegistry
    /\ config = NoRunConfig
    /\ timers = {}
    /\ pass = [p \in {1, 2} |-> IdlePass]
    /\ ConfigIdle
    /\ source = SourceIdle
    /\ measure = MeasureIdle

StartTimer ==
    /\ \E name \in MeasureNames :
         /\ timers' = startTimer(timers, name)
         /\ measure' = [measure EXCEPT !.last = [op |-> "startTimer", name |-> name,
                                                 started |-> name \in timers,
                                                 threw |-> FALSE]]
    /\ UNCHANGED <<cacheVars, cfgVars, runDirect, registry, context, config, pass, source>>

EndTimer ==
    /\ \E name \in MeasureNames :
         LET e == endTimer(timers, name)
         IN  /\ timers' = e.timers
             /\ measure' = [measure EXCEPT !.last = [op |-> "endTimer", name |-> name,
                                                     started |-> name \in timers,
                                                     threw |-> e.threw]]
    /\ UNCHANGED <<cacheVars, cfgVars, runDirect, registry, context, config, pass, source>>

(* measureTime(name, fn) up to `await fn()` *)
MeasureTime(c) ==
    /\ measure.calls[c].pc = "idle"
    /\ \E name \in MeasureNames :
         /\ timers' = startTimer(timers, name)
         /\ measure' = [measure EXCEPT !.calls[c].pc = "running", !.calls[c].name = name,
                                       !.last = NoTimerCall]
    /\ UNCHANGED <<cacheVars, cfgVars, runDirect, registry, context, config, pass, source>>

(* fn() settles and measureTime ends *)
MeasureSettle(c) ==
    /\ measure.calls[c].pc = "running"
    /\ \E fn \in AsyncFns :
         LET r == measureFinally(timers, measure.calls[c].name, fn)
         IN  /\ timers' = r.timers
             /\ measure' = [measure EXCEPT
                               !.calls[c] = [pc |-> "done", name |-> @.name, fn |-> fn,
                                             result |-> r.result,
                                             left |-> @.name \in r.timers],
                               !.last = NoTimerCall]
    /\ UNCHANGED <<cacheVars, cfgVars, runDirect, registry, context, config, pass, source>>

(* measureTimeSync(name, fn) *)
MeasureTimeSync(c) ==
    /\ measure.calls[c].pc = "idle"
    /\ \E name \in MeasureNames, fn \in SyncFns :
         LET r == measureTimeSync(timers, name, fn)
         IN  /\ timers' = r.timers
             /\ measure' = [measure EXCEPT
                               !.calls[c] = [pc |-> "done", name |-> name,
                                             fn |-> IF fn = "nested" THEN "value" ELSE fn,
                                             result |-> r.result,
                                             left |-> name \in r.timers],
                               !.last = NoTimerCall]
    /\ UNCHANGED <<cacheVars, cfgVars, runDirect, registry, context, config, pass, source>>

NextTimers ==
    \/ StartTimer
    \/ EndTimer
    \/ \E c \in 1..MaxMeasures : MeasureTime(c)
    \/ \E c \in 1..MaxMeasures : MeasureSettle(c)
    \/ \E c \in 1..MaxMeasures : MeasureTimeSync(c)

SpecTimers == InitTimers /\ [][NextTimers]_vars

----------------------------------------------------------------------------
(* Properties of the cache *)

(* a value JSON text can carry unchanged *)
JsonRepresentable(v) == v.kind \in {"number", "object"}

(* a cache name that names a file directly in the cache directory *)
PlainName(name) == Len(name) = 1

(* C1: getCache(key, maxAge) returns the stored value exactly when an entry  *)
(* for key exists, is readable and parseable, and now - last-write time <    *)
(* maxAge * 1000 ms; in every other case (no entry, age >= maxAge * 1000,    *)
(* maxAge = 0) it returns null.                                              *)
C1_GetCacheLiveEntry ==
    last.op = "getCache" =>
        LET f    == files[CacheFile(last.name)]
            live == /\ f.exists
                    /\ ~last.faulted
                    /\ ~ParseThrows(f.content)
                    /\ last.time - f.mtime < last.maxAge * 1000
        IN  /\ ~last.threw
            /\ last.res = IF live THEN JSONParse(f.content) ELSE Null
            /\ (last.maxAge = 0 => last.res = Null)
            /\ (f.exists /\ last.time - f.mtime >= last.maxAge * 1000
                    => last.res = Null)

(* C1 witness: an entry written a second ago is returned under maxAge 2 *)
C1_Witness ==
    /\ last.op = "getCache"
    /\ last.maxAge = 2
    /\ files[CacheFile(last.name)].exists
    /\ last.time - files[CacheFile(last.name)].mtime = 1000
    /\ last.res = Obj(123)

(* C2 as stated: for all keys k and all values v, saveCache(k, v) directly   *)
(* followed by getCache(k, maxAge) with maxAge > 0 returns v, here granted   *)
(* that no storage call failed.                                              *)
C2_RoundTripAnyKeyAnyValue ==
    [][ ( /\ last.op = "saveCache" /\ ~last.faulted
          /\ last'.op = "getCache" /\ ~last'.faulted
          /\ last'.name = last.name
          /\ last'.maxAge > 0
          /\ last'.time = last.time )
        => last'.res = last.arg ]_vars

(* C2 amended: for every cache name that is a plain file name and every      *)
(* value v that JSON can represent, when no storage call fails, saveCache    *)
(* (k, v) followed by getCache(k, maxAge) with maxAge > 0, less than         *)
(* maxAge * 1000 ms later, returns v.                                        *)
C2_RoundTrip ==
    [][ ( /\ last.op = "saveCache" /\ ~last.faulted
          /\ PlainName(last.name)
          /\ JsonRepresentable(last.arg)
          /\ last'.op = "getCache" /\ ~last'.faulted
          /\ last'.name = last.name
          /\ last'.maxAge > 0
          /\ last'.time - last.time < last'.maxAge * 1000 )
        => last'.res = last.arg ]_vars

(* C2 witness: getCache returned the object that a saveCache of the same     *)
(* instant put under the name                                                *)
C2_Witness ==
    /\ last.op = "getCache"
    /\ ~last.faulted
    /\ last.res = Obj(123)
    /\ files[CacheFile(last.name)] = File(JSONStringify(Obj(123)), last.time)

(* the step starts apiRequest(name, maxAge, ...) and meets no read failure *)
ApiCalled(name, maxAge) ==
    /\ ~pending.active
    /\ \/ /\ pending'.active
          /\ pending'.name = name /\ pending'.maxAge = maxAge
          /\ ~pending'.faulted
       \/ /\ ~pending'.active
          /\ last' # last
          /\ last'.op = "apiRequest" /\ last'.calls = 0
          /\ last'.name = name /\ last'.maxAge = maxAge
          /\ ~last'.faulted

(* C3: apiRequest(k, maxAge, producer) called twice in immediate succession  *)
(* with a sufficient maxAge invokes the producer once in total, for every    *)
(* value the producer can return: after a first call that fetched and stored *)
(* a JSON value without failure, the second call returns that value from the *)
(* cache and does not invoke the producer.                                   *)
C3_ProducerInvokedOnce ==
    [][ \A maxAge \in MaxAges :
          ( /\ last.op = "apiRequest" /\ last.calls = 1
            /\ ~last.threw /\ ~last.faulted
            /\ PlainName(last.name)
            /\ JsonRepresentable(last.res)
            /\ ApiCalled(last.name, maxAge)
            /\ maxAge * 1000 > now - last.time )
          => /\ ~pending'.active
             /\ last'.calls = 0
             /\ last'.res = last.res ]_vars

(* C4: when apiRequest misses the cache and the producer fails, the error    *)
(* propagates to the caller and the cache storage is left as it was before   *)
(* the call.                                                                 *)
C4_ProducerFailurePropagates ==
    [][ /\ (~pending.active /\ pending'.active)
            => (files' = files /\ cacheDir' = cacheDir)
        /\ (pending.active /\ ~pending'.active /\ last'.arg = Rejects)
            => /\ last'.op = "apiRequest"
               /\ last'.threw
               /\ files' = files
               /\ cacheDir' = cacheDir ]_vars

(* C4 witness: a request over an existing entry ended with the producer's    *)
(* error                                                                     *)
C4_Witness ==
    /\ last.op = "apiRequest"
    /\ last.threw
    /\ last.arg = Rejects
    /\ files[CacheFile(last.name)].exists

(* C5: cache plumbing never fails towards its caller: under any storage      *)
(* failure getCache resolves to null, saveCache and ensureCacheDir resolve,  *)
(* and apiRequest rejects only when the producer rejects, returning the      *)
(* producer's value even when persisting it failed.                          *)
C5_CachePlumbingNeverThrows ==
    /\ last.op \in {"getCache", "saveCache", "ensureCacheDir"} => ~last.threw
    /\ (last.op = "getCache" /\ last.faulted) => last.res = Null
    /\ ( /\ last.op = "getCache"
         /\ files[CacheFile(last.name)].exists
         /\ ParseThrows(files[CacheFile(last.name)].content) ) => last.res = Null
    /\ last.op = "apiRequest" =>
          /\ last.threw <=> (last.calls = 1 /\ last.arg = Rejects)
          /\ (last.calls = 1 /\ last.arg # Rejects) => last.res = last.arg

(* C5 witness: the write failed, no entry exists, and apiRequest still       *)
(* returned the producer's value                                             *)
C5_Witness ==
    /\ last.op = "apiRequest"
    /\ last.calls = 1
    /\ last.faulted
    /\ ~last.threw
    /\ last.res = Obj(123)
    /\ ~files[CacheFile(last.name)].exists

(* the cache name that the step's operation is about *)
Target == IF pending.active THEN pending.name ELSE last.name

(* C25 as stated: cache entries are independent per key, for all keys: a    *)
(* saveCache or an apiRequest for k leaves the value and the write time of   *)
(* every other key unchanged, and getCache changes no entry.                 *)
C25_EntriesIndependentAnyKey ==
    [][ /\ (last'.op = "getCache" /\ last' # last) => files' = files
        /\ \A k \in CacheNames :
              k # Target' => files'[CacheFile(k)] = files[CacheFile(k)] ]_vars

(* C25, amended: the same for keys that are plain file names, which name    *)
(* distinct files.                                                           *)
C25_EntriesIndependent ==
    [][ /\ (last'.op = "getCache" /\ last' # last) => files' = files
        /\ \A k \in CacheNames :
              (PlainName(k) /\ PlainName(Target') /\ k # Target')
                  => files'[CacheFile(k)] = files[CacheFile(k)] ]_vars

(* C25 witness: saveCache('api', ...) wrote its entry a second after the    *)
(* entry of 'test' was written, and that entry is as it was                  *)
C25_Witness ==
    /\ last.op = "saveCache"
    /\ last.name = <<"api">>
    /\ files[<<"api">>].exists
    /\ files[<<"api">>].mtime = 1000
    /\ files[<<"test">>].exists
    /\ files[<<"test">>].mtime = 0
----------------------------------------------------------------------------
(* Properties of the registry, of setupModules and displayWelcome, and of    *)
(* the program run                                                           *)

(* the names in names that have a registered module, each replaced by its    *)
(* module, in the order of names                                             *)
RECURSIVE RegisteredInOrder(_, _)
RegisteredInOrder(names, reg) ==
    IF names = <<>> THEN <<>>
    ELSE (IF reg[Head(names)] = NoModule THEN <<>> ELSE <<reg[Head(names)]>>)
         \o RegisteredInOrder(Tail(names), reg)

NamesOf(s) == [i \in DOMAIN s |-> s[i].name]

(* the calls of module.setup, or of module.display, that pass p made *)
CallsOf(p, phase) ==
    LET OfPhase(c) == c.phase = phase IN SelectSeq(pass[p].calls, OfPhase)

(* init() of pass p has ended: it printed the message or caught an error *)
Ended(p) == pass[p].pc \in {"done", "failed"}

(* C6: getEnabledModules(config) is config.enabledModules with each name     *)
(* replaced by the module registered under it and each name without a        *)
(* registered module deleted, in the configured order, repeats kept.         *)
C6_EnabledModulesInConfigOrder ==
    \A p \in Passes :
       pass[p].setup # "none" =>
          /\ pass[p].enabledModules =
                 RegisteredInOrder(config.enabledModules, registry)
          /\ \A i \in DOMAIN pass[p].enabledModules :
                registry[pass[p].enabledModules[i].name] = pass[p].enabledModules[i]

(* C6 witness: registry {github, system, ...} and the list [system, greeting, *)
(* github] gave [system, github]                                             *)
C6_Witness ==
    \E p \in Passes :
       /\ pass[p].setup # "none"
       /\ config.enabledModules = <<"system", "greeting", "github">>
       /\ pass[p].enabledModules = <<Module("system"), Module("github")>>

(* the non-empty fragments of the displays of pass p that resolved, in the   *)
(* order of the calls                                                        *)
FragmentsOf(p) ==
    LET WithText(c) == c.outcome = "text" /\ Fragment(c.name) # <<>>
        shown == SelectSeq(CallsOf(p, "display"), WithText)
    IN  [i \in DOMAIN shown |-> Fragment(shown[i].name)]

(* text occurs in whole *)
Contains(whole, text) ==
    \E i \in 0..(Len(whole) - Len(text)) : SubSeq(whole, i + 1, i + Len(text)) = text

(* C7: in a single pass, displayWelcome(config) returns "\n" + F + "\n",     *)
(* F the non-empty fragments of the enabled modules whose display resolved,  *)
(* in the order of config.enabledModules, joined by single newlines; a       *)
(* display that returns the empty string or throws adds nothing, and with no *)
(* fragment the result is "\n".                                              *)
C7_DisplayWelcomeText ==
    \A p \in Passes :
       (~runDirect /\ Ended(p) /\ config.array) =>
          /\ pass[p].result.kind = "resolved"
          /\ pass[p].result.text =
                IF FragmentsOf(p) = <<>> THEN <<"\n">>
                ELSE <<"\n">> \o join(FragmentsOf(p), "\n") \o <<"\n">>
          /\ NamesOf(CallsOf(p, "display")) =
                NamesOf(RegisteredInOrder(config.enabledModules, registry))

(* C8: displayWelcome is failure-isolated: for every set of registered       *)
(* modules, whatever their names, and every combination of display outcomes, *)
(* display is invoked on every enabled module, every fragment of a display   *)
(* that resolved with text is in the result, and displayWelcome resolves     *)
(* with a string and never rejects. Stated for a single call of init().      *)
C8_DisplayWelcomeNeverRejects ==
    \A p \in Passes :
       (~runDirect /\ Ended(p) /\ config.array) =>
          /\ pass[p].result.kind = "resolved"
          /\ Len(CallsOf(p, "display")) =
                Len(RegisteredInOrder(config.enabledModules, registry))
          /\ \A i \in DOMAIN FragmentsOf(p) :
                Contains(pass[p].result.text, FragmentsOf(p)[i])

(* C9: setupModules is failure-isolated: for every combination of setup      *)
(* outcomes, setup is invoked on every enabled module in the configured      *)
(* order, also behind a setup that rejected, and setupModules resolves.      *)
C9_SetupModulesFailureIsolated ==
    \A p \in Passes :
       LET expected == NamesOf(RegisteredInOrder(config.enabledModules, registry))
           called   == NamesOf(CallsOf(p, "setup"))
       IN  /\ pass[p].setup # "rejected"
           /\ pass[p].setup = "resolved" => called = expected
           /\ pass[p].setup = "running" =>
                 /\ Len(called) <= Len(expected)
                 /\ called = SubSeq(expected, 1, Len(called))
                 /\ pass[p].pc = "setup"
           /\ (Ended(p) /\ pass[p].setup # "none") => pass[p].setup = "resolved"

(* C9 witness: setupModules resolved after the first setup rejected and the  *)
(* setup of the next module was called and resolved                          *)
C9_Witness ==
    \E p \in Passes :
       /\ pass[p].setup = "resolved"
       /\ Len(CallsOf(p, "setup")) >= 2
       /\ CallsOf(p, "setup")[1].outcome = "rejected"
       /\ CallsOf(p, "setup")[2].outcome = "resolved"

NoRepeats(s) == \A i, j \in DOMAIN s : s[i] = s[j] => i = j

(* the setup calls that the passes made on the module of the name *)
SetupCallsOn(name) ==
    {<<p, i>> \in Passes \X (1..(2 * MaxEnabled + 2)) :
        /\ i \in DOMAIN pass[p].calls
        /\ pass[p].calls[i].phase = "setup"
        /\ pass[p].calls[i].name = name}

(* C10: in every run of the program each enabled module's setup is called    *)
(* exactly once per process, and that call has settled before display is     *)
(* called on any module. Stated for a list of enabled modules without        *)
(* repeats.                                                                  *)
C10_SetupOnceBeforeDisplay ==
    ( /\ NoRepeats(config.enabledModules)
      /\ \E p \in Passes : CallsOf(p, "display") # <<>> )
    => \A name \in Range(NamesOf(RegisteredInOrder(config.enabledModules, registry))) :
          /\ Cardinality(SetupCallsOn(name)) = 1
          /\ \A c \in SetupCallsOn(name) : pass[c[1]].calls[c[2]].outcome # "pending"

(* the calls of init() that are in progress: called and not yet ended *)
InProgress == {p \in Passes : pass[p].pc \notin {"idle", "done", "failed"}}

(* C11: the program performs at most one setup/display pass per process      *)
(* lifetime, whether the entry file is executed directly or imported, so two *)
(* passes are never in progress at the same time.                            *)
C11_AtMostOnePass ==
    /\ Cardinality({p \in Passes : pass[p].pc # "idle"}) <= 1
    /\ Cardinality(InProgress) <= 1

(* C12: every module name the README lists as available (system, greeting,   *)
(* weather, github, linearStalled), which is every name of the default       *)
(* enabledModules, is registered at process start, so with the default       *)
(* configuration getEnabledModules returns all five modules and each is set  *)
(* up and displayed.                                                         *)
C12_DefaultModulesRegistered ==
    \A p \in Passes :
       /\ (config.enabledModules = DefaultEnabledModules /\ pass[p].pc # "idle") =>
             \A i \in DOMAIN DefaultEnabledModules :
                registry[DefaultEnabledModules[i]] # NoModule
       /\ (config.enabledModules = DefaultEnabledModules /\ pass[p].setup # "none") =>
             NamesOf(pass[p].enabledModules) = DefaultEnabledModules
       /\ (config.enabledModules = DefaultEnabledModules /\ Ended(p)) =>
             /\ NamesOf(CallsOf(p, "setup")) = DefaultEnabledModules
             /\ NamesOf(CallsOf(p, "display")) = DefaultEnabledModules

(* the modules of the caller's registry that the configuration enables *)
CallerEnabled ==
    {n \in Range(config.enabledModules) : context[n] # NoModule}

(* C14: setupModules and displayWelcome act on the registry in which the     *)
(* caller registered its modules: for a module registered in a caller-       *)
(* constructed ModuleRegistry, passed as the call context, and named in      *)
(* config.enabledModules, setupModules calls that module's setup and         *)
(* displayWelcome's result contains that module's display text.              *)
C14_CallerRegistryUsed ==
    \A n \in CallerEnabled :
       /\ pass[1].setup = "resolved" =>
             \E i \in DOMAIN CallsOf(1, "setup") : CallsOf(1, "setup")[i].name = n
       /\ pass[1].pc = "done" =>
             \E i \in DOMAIN CallsOf(1, "display") : CallsOf(1, "display")[i].name = n

----------------------------------------------------------------------------
(* Properties of the configuration *)

(* the JSON text of the API keys of the environment *)
KeyTexts == {StringifyField(GitHubToken), StringifyField(LinearKey)}

(* C13: API keys are never written to the configuration file: after any      *)
(* sequence of loadConfig, saveConfig and config-menu handlers, with         *)
(* GITHUB_PERSONAL_TOKEN and LINEAR_API_KEY set in the environment,          *)
(* config.json contains neither the GitHub token nor the Linear API key.     *)
C13_NoApiKeysInConfigFile ==
    tokens => /\ \A f \in AllFields : configFile.fields[f] \notin KeyTexts
              /\ \A s \in Sections : configFile.secs[s] \notin KeyTexts

(* the value has the type of the field *)
ValidField(f, v) ==
    IF f \in {"maxPRs", "logLevel"} THEN v.kind = "number" ELSE v.kind = "string"

(* the value that the persisted file gives the field, when it gives a valid  *)
(* one, else the default of the field                                        *)
PersistedOrDefault(file, tk, f) ==
    LET user == ParseConfig(file)
    IN  IF /\ file.kind = "object"
           /\ user.secs[SectionOf(f)] = AnObject
           /\ ValidField(f, user.fields[f])
        THEN user.fields[f]
        ELSE defaultConfig(tk).fields[f]

(* C15: loadConfig always resolves with a configuration in which every field *)
(* has a value: for any persisted config file (absent, invalid JSON, a       *)
(* section missing, a section with only some of its fields, a field of       *)
(* invalid type) each missing or invalid field of the returned configuration *)
(* equals its default. Stated for loads that meet no storage failure.        *)
C15_LoadConfigFillsDefaults ==
    [][ (lastConfig'.op = "loadConfig" /\ lastConfig' # lastConfig
            /\ ~lastConfig'.faulted)
        => /\ \A s \in Sections : lastConfig'.cfg.secs[s] = AnObject
           /\ \A f \in AllFields :
                 lastConfig'.cfg.fields[f] = PersistedOrDefault(configFile, tokens, f)
      ]_vars

(* C16 as stated: for every complete configuration c, saveConfig(c) directly *)
(* followed by loadConfig() returns a configuration whose fields all equal   *)
(* those of c, here granted that no storage call failed.                     *)
C16_ConfigRoundTripAnyConfig ==
    [][ ( /\ lastConfig.op = "saveConfig" /\ ~lastConfig.faulted
          /\ lastConfig'.op = "loadConfig" /\ ~lastConfig'.faulted )
        => lastConfig'.cfg = lastConfig.cfg ]_vars

(* every field value of the configuration is one that JSON text carries      *)
(* unchanged                                                                 *)
JsonConfig(cfg) == \A f \in AllFields : cfg.fields[f].kind # "NaN"

(* C16 amended: for every complete configuration c whose field values JSON   *)
(* represents without loss, when the configuration directory exists and no   *)
(* storage call fails, saveConfig(c) followed by loadConfig() returns a      *)
(* configuration whose fields all equal those of c.                          *)
C16_ConfigRoundTrip ==
    [][ ( /\ lastConfig.op = "saveConfig" /\ ~lastConfig.faulted
          /\ JsonConfig(lastConfig.cfg)
          /\ lastConfig'.op = "loadConfig" /\ ~lastConfig'.faulted )
        => lastConfig'.cfg = lastConfig.cfg ]_vars

(* C16 witness: loadConfig returned the configuration with the user name     *)
(* 'TestUser' and maxPRs 10 that only a save can have put into the file      *)
C16_Witness ==
    /\ lastConfig.op = "loadConfig"
    /\ ~lastConfig.faulted
    /\ lastConfig.cfg.fields["userName"] = UserNameTest
    /\ lastConfig.cfg.fields["maxPRs"] = Num(10)
    /\ configFile = StringifyConfig(lastConfig.cfg)

(* C28: migrateFromZsh leaves the shared defaultConfig object unchanged:     *)
(* after a migration every field of defaultConfig, those of the nested       *)
(* sections included, still has its original default, and a later loadConfig *)
(* that falls back to the defaults (config.json absent) does not return      *)
(* migrated values.                                                          *)
C28_MigrationLeavesDefaults ==
    [][ /\ lastConfig'.op = "migrateFromZsh" => defaults' = defaultConfig(tokens)
        /\ (lastConfig'.op = "loadConfig" /\ configFile.kind = "absent")
              => lastConfig'.cfg = defaultConfig(tokens) ]_vars

(* C20: during a normal display run init never rejects and never ends the   *)
(* process abnormally: any failure in the creation of the cache directory,   *)
(* the loading of the configuration, module setup or module display is       *)
(* recovered, and the run still proceeds to print the composed welcome text. *)
(* Here: a single call of init(), once ended, has printed the text that      *)
(* displayWelcome resolved with.                                             *)
C20_InitAlwaysPrints ==
    (~runDirect /\ context = EmptyRegistry /\ Ended(1))
        => (pass[1].pc = "done" /\ pass[1].result.kind = "resolved")
(* the text that displayWelcome composes from the display calls of pass p *)
TextOf(p) ==
    IF FragmentsOf(p) = <<>> THEN <<"\n">>
    ELSE <<"\n">> \o join(FragmentsOf(p), "\n") \o <<"\n">>

C22_FailedSetupStillDisplayed ==
    \A p \in Passes :
       LET setups   == CallsOf(p, "setup")
           displays == CallsOf(p, "display")
       IN  /\ \A i \in DOMAIN setups :
                 setups[i].outcome = "rejected" => <<"setup", setups[i].name>> \in pass[p].errors
           /\ pass[p].setup \in {"none", "running", "resolved"}
           /\ (Ended(p) /\ config.array) =>
                 /\ pass[p].setup = "resolved"
                 /\ NamesOf(displays) = NamesOf(setups)
                 /\ NamesOf(displays) =
                       NamesOf(RegisteredInOrder(config.enabledModules, registry))

(* C22 witness: the setup of the first module rejected, the setup of the    *)
(* second resolved, and the display of the first was called and resolved     *)
(* with its text                                                             *)
C22_Witness ==
    /\ pass[1].pc = "done"
    /\ Len(CallsOf(1, "setup")) = 2
    /\ CallsOf(1, "setup")[1].outcome = "rejected"
    /\ CallsOf(1, "setup")[2].outcome = "resolved"
    /\ CallsOf(1, "display")[1].name = CallsOf(1, "setup")[1].name
    /\ CallsOf(1, "display")[1].outcome = "text"

(* pass p awaits a setup or display call *)
Awaiting(p) == pass[p].pc \in {"setup", "display"}

C27_OverlappingPassesIndependent ==
    \A p \in Passes :
       (runDirect /\ registry = BuiltInRegistry) =>
          /\ \A e \in pass[p].errors :
                \E i \in DOMAIN pass[p].calls :
                   /\ pass[p].calls[i].phase = e[1]
                   /\ pass[p].calls[i].name = e[2]
                   /\ pass[p].calls[i].outcome = "rejected"
          /\ (Ended(p) /\ config.array) =>
                /\ pass[p].result.kind = "resolved"
                /\ \A i \in DOMAIN FragmentsOf(p) :
                      Contains(pass[p].result.text, FragmentsOf(p)[i])
(* C19: runConfigCommand ends the process with exit code 0 whenever the     *)
(* user cancels a prompt, in the main menu or inside any section handler,    *)
(* the API-keys handler included, and with exit code 1 on any other          *)
(* unexpected error; after a cancellation no further prompt is shown.        *)
C19_CancelExitsZero ==
    /\ menu.cancelled => (menu.pc = "exited" /\ menu.code = 0)
    /\ (menu.failed /\ ~menu.cancelled) => (menu.pc = "exited" /\ menu.code = 1)
----------------------------------------------------------------------------
(* Properties of the data-source modules *)

(* setup left the credential or identity that display needs unresolved: no  *)
(* token or no username, no client for want of an API key, no geocoded       *)
(* location                                                                  *)
Unresolved(m) ==
    CASE m.name = "github" -> m.token = Undefined \/ m.username = Undefined
      [] m.name = "linearStalled" -> ~m.client
      [] m.name = "weather" -> m.lat = Undefined \/ m.lon = Undefined
      [] OTHER -> FALSE

(* the fixed fragment of a module that is not configured *)
NotConfigured(m) ==
    CASE m.name = "github" -> <<Frag("GitHub API not configured", 0)>>
      [] m.name = "linearStalled" -> <<Frag("Linear API not configured", 0)>>
      [] OTHER -> <<Frag("Could not find location", 0)>>

(* C17: when setup left the credential or identity of github, linearStalled *)
(* or weather unresolved, display resolves with the module's fixed 'not     *)
(* configured' / 'could not find location' fragment, does not throw and      *)
(* issues no apiRequest.                                                     *)
C17_UnconfiguredDisplay ==
    (source.pc \in {"awaiting", "resolved", "rejected"} /\ Unresolved(source))
        => /\ source.pc = "resolved"
           /\ source.output = NotConfigured(source)
           /\ source.requests = <<>>

(* the fragments that tell the reader that a sub-section could not be fetched *)
FailedToFetch == {"Failed to fetch issues", "Failed to retrieve weather data"}

(* the fragment by which a sub-section appears in the text of its module *)
Heading(m, section) ==
    CASE m.name = "github" /\ section = "review" -> "PRs awaiting your review"
      [] m.name = "github" /\ section = "created" -> "created by you"
      [] m.name = "github" /\ section = "mentions" -> "mentions"
      [] m.name = "weather" -> "Failed to retrieve weather data"
      [] OTHER -> section

Rendered(m, section) == \E i \in DOMAIN m.output : m.output[i].text = Heading(m, section)

(* C18: when a cache-fronted remote call of display fails, the failure is   *)
(* caught inside the module, the output has a visible 'failed to fetch'      *)
(* fragment for each failed sub-section, and every sibling sub-section of    *)
(* the module is still requested and rendered.                               *)
C18_FailedSectionVisible ==
    (source.pc \in {"resolved", "rejected"} /\ source.failed # {})
        => /\ source.pc = "resolved"
           /\ Cardinality({i \in DOMAIN source.output :
                              source.output[i].text \in FailedToFetch})
                = Cardinality(source.failed)
           /\ source.requests = SectionsOf(source)
           /\ \A i \in DOMAIN source.requests : Rendered(source, source.requests[i])

(* the cache durations that the configuration holds *)
ConfiguredDurations(cfg) == {cfg.githubDuration, cfg.weatherDuration, cfg.quoteDuration}

(* C23: every cache-fronted request of a module's display passes as max-age *)
(* the cache duration that the configuration supplies for its data category: *)
(* config.cache.githubDuration for github, config.cache.weatherDuration for  *)
(* weather, a duration of the configuration for linearStalled.               *)
C23_CacheAgeFromConfig ==
    \A i \in DOMAIN source.cacheAges :
       /\ source.name = "github" => source.cacheAges[i] = source.cfg.githubDuration
       /\ source.name = "weather" => source.cacheAges[i] = source.cfg.weatherDuration
       /\ source.cacheAges[i] \in ConfiguredDurations(source.cfg)

(* the requests that the modules can issue under one configuration or        *)
(* another                                                                   *)
Queries ==
    {Query("github", type, <<ToString(GitHubLogin.n)>>, limit) :
        type \in {"review", "created", "mentions"}, limit \in {5, 10}}
    \cup {Query("weather", units, <<ToString(lat), ToString(11)>>, 0) :
             units \in {"fahrenheit", "celsius"}, lat \in {0, 60}}
    \cup {Query("linearStalled", "", Chars(team), days) :
             team \in TeamNames \cup {"Dev_Ops"}, days \in {3, 5}}

(* C24: cache keys are injective over (module, query): the key of a request *)
(* is the key of no request of another module and of no request of the same  *)
(* module with another account, query type or result limit (GitHub), other   *)
(* coordinates or units (weather), another team name or stalled-days         *)
(* threshold (Linear).                                                       *)
C24_CacheKeysInjective ==
    \A i \in DOMAIN source.keys :
       /\ source.keys[i] = CacheKey(QueryOf(source, i))
       /\ \A q \in Queries : CacheKey(q) = source.keys[i] => q = QueryOf(source, i)

(* C30: whenever the weather module's setup geocoded the location, for any   *)
(* latitude and longitude returned, 0 included, display issues the           *)
(* cache-fronted weather request and never returns the 'Could not find       *)
(* location' fragment.                                                       *)
C30_GeocodedIsConfigured ==
    (/\ source.name = "weather"
     /\ source.lat.kind = "number" /\ source.lon.kind = "number"
     /\ source.pc \in {"awaiting", "resolved", "rejected"})
    => /\ source.requests = <<"weather">>
       /\ \A i \in DOMAIN source.output :
             source.output[i].text # "Could not find location"

----------------------------------------------------------------------------
(* Properties of the timers *)

(* C26: endTimer(name) throws when no timer of that name is started and     *)
(* otherwise removes it; measureTime and measureTimeSync return the result   *)
(* of the wrapped function, or propagate its error, and in both cases leave  *)
(* no started timer of that name behind.                                     *)
C26_TimerProtocol ==
    /\ measure.last.op = "endTimer" =>
          /\ measure.last.threw <=> ~measure.last.started
          /\ measure.last.name \notin timers
    /\ measure.last.op = "startTimer" =>
          (~measure.last.threw /\ measure.last.name \in timers)
    /\ \A c \in 1..MaxMeasures :
          measure.calls[c].pc = "done" =>
             /\ measure.calls[c].result = measure.calls[c].fn
             /\ ~measure.calls[c].left

====
